---- MODULE Spec2Model ----
(***************************************************************************)
(* Model of the fungus simulation: trait vectors (Dna.ts), the energy      *)
(* ledger and accumulator (Energy), tiles and the garden (Tile.ts,         *)
(* Garden.ts), cells and organisms (Cell.ts, Fungus.ts) and the            *)
(* per-tick pipeline of SimulationEngine.ts.                               *)
(*                                                                         *)
(* Numbers.  The code computes in IEEE doubles.  The model computes in     *)
(* exact fixed point: a trait or an energy amount a is held as the integer *)
(* FP * a (FP = 7, so that the value TOTAL_POINTS / 7 of the all-zero      *)
(* branch of Dna.normalize is representable).  Where the rounding of a     *)
(* double decides a result of the code (the sum of the seven traits) the   *)
(* rounding is modelled bit for bit (Double_* below).                      *)
(* Rates and accumulators are exact fractions over a fixed denominator; a  *)
(* double accumulator can hold a hair less than a whole number where the   *)
(* exact one holds it, and then gives the unit up one extraction later.    *)
(* The costs of expansion and of a mushroom are exact as well; the traits  *)
(* of the environments below are ones for which the doubles agree.         *)
(***************************************************************************)
EXTENDS Integers, Sequences, FiniteSets, TLC

VARIABLES
    probe,              \* the objects of a library-level specification
    env,                \* the environment of the simulation
    tiles,              \* Garden.tiles
    cells,              \* SimulationEngine.cells
    heap,               \* the Fungus objects
    fungi,              \* SimulationEngine.fungi
    spores,             \* SimulationEngine.spores
    nextId,             \* Fungus.nextId
    nextCell,           \* the identity of the next Cell object
    pc,                 \* the step of the frame that runs next
    idx,                \* the position of the first loop of update
    todo,               \* the cells the second loop of update has not taken yet
    frameTime,          \* the deltaTime of the running update
    frameSun,           \* its sunEnergyPerTile
    ticks,              \* frames completed
    spawns,             \* calls of createFungus
    created,            \* where the last createFungus was asked for, and what it returned
    hist                \* history of the running frame

engineVars ==
    <<env, tiles, cells, heap, fungi, spores, nextId, nextCell, pc, idx, todo,
      frameTime, frameSun, ticks, spawns, created, hist>>

vars == <<probe, engineVars>>

\* no simulation runs: the state of the library-level specifications
NoEngine ==
    /\ env = "none" /\ tiles = <<>> /\ cells = <<>> /\ heap = <<>> /\ fungi = {}
    /\ spores = <<>> /\ nextId = 0 /\ nextCell = 0 /\ pc = "none" /\ idx = 0
    /\ todo = {} /\ frameTime = 0 /\ frameSun = 0 /\ ticks = 0
    /\ spawns = 0 /\ created = <<>> /\ hist = <<>>

----------------------------------------------------------------------------
(* Arithmetic helpers *)

Min(a, b) == IF a <= b THEN a ELSE b
Max(a, b) == IF a >= b THEN a ELSE b
Abs(a) == IF a < 0 THEN -a ELSE a
Sign(a) == IF a > 0 THEN 1 ELSE IF a < 0 THEN -1 ELSE 0

\* number of traits of a Dna; also the denominator of the fixed point
TraitCount == 7
FP == TraitCount

\* Math.floor of a fixed-point value, as a fixed-point value
Floor(a) == (a \div FP) * FP
\* a whole number n as a fixed-point value
Whole(n) == n * FP
IsWhole(a) == a % FP = 0

----------------------------------------------------------------------------
(* Energy.ts: EnergyType, EnergyWalletHelper *)

EnergyType == {"SUN_UNIT", "SOIL_UNIT", "NUTRITION_UNIT"}

createEmpty == [t \in EnergyType |-> 0]

getTotalUnits(wallet) ==
    wallet["SUN_UNIT"] + wallet["SOIL_UNIT"] + wallet["NUTRITION_UNIT"]

\* an optional number: <<>> is undefined, <<c>> is c
Undefined == <<>>
Some(c) == <<c>>

\* EnergyWalletHelper.add: the wallet after the call and the value returned
Wallet_add(wallet, type, amount, maxCapacity) ==
    LET current == wallet[type]
        toAdd == Floor(amount)
    IN  IF maxCapacity # Undefined
        THEN LET totalUnits == getTotalUnits(wallet)
                 available == maxCapacity[1] - totalUnits
                 actualAdd == Min(toAdd, available)
             IN  [wallet |-> [wallet EXCEPT ![type] = current + actualAdd],
                  ret |-> actualAdd]
        ELSE [wallet |-> [wallet EXCEPT ![type] = current + toAdd], ret |-> toAdd]

\* EnergyWalletHelper.remove
Wallet_remove(wallet, type, amount) ==
    LET current == wallet[type]
        toRemove == Floor(amount)
        actualRemove == Min(toRemove, current)
    IN  [wallet |-> [wallet EXCEPT ![type] = current - actualRemove],
         ret |-> actualRemove]

\* a transfer that keeps what the destination refused instead of refunding it
Wallet_transferWithoutRefund(fromWallet, toWallet, type, amount, toMaxCapacity) ==
    LET r == Wallet_remove(fromWallet, type, amount)
        a == Wallet_add(toWallet, type, r.ret, toMaxCapacity)
    IN  [from |-> r.wallet, to |-> a.wallet, ret |-> a.ret]

\* EnergyWalletHelper.transfer
Wallet_transfer(fromWallet, toWallet, type, amount, toMaxCapacity) ==
    LET r == Wallet_remove(fromWallet, type, amount)
        removed == r.ret
        a == Wallet_add(toWallet, type, removed, toMaxCapacity)
        added == a.ret
        from2 == IF added < removed
                 THEN Wallet_add(r.wallet, type, removed - added, Undefined).wallet
                 ELSE r.wallet
    IN  [from |-> from2, to |-> a.wallet, ret |-> added]

----------------------------------------------------------------------------
(* Library-level specification of the ledger: transfer between two ledgers *)

MaxUnits == 2       \* ledgers hold 0..MaxUnits whole units of each kind
MaxAmount == 3      \* amounts asked for: 0..MaxAmount whole units, and those plus 3/7
MaxCapacity == 4    \* destination capacities 0..MaxCapacity whole units, or none

WalletChoices == [EnergyType -> {Whole(n) : n \in 0..MaxUnits}]
AmountChoices == {Whole(n) : n \in 0..MaxAmount} \cup {Whole(n) + 3 : n \in 0..MaxAmount}
CapacityChoices == {Undefined} \cup {Some(Whole(c)) : c \in 0..MaxCapacity}

InitWallet ==
    /\ NoEngine
    /\ \E f \in WalletChoices, t \in WalletChoices :
          probe = [op |-> "wallets", from |-> f, to |-> t]

Transfer ==
    /\ probe.op = "wallets"
    /\ \E type \in EnergyType, amount \in AmountChoices, cap \in CapacityChoices :
          LET r == Wallet_transfer(probe.from, probe.to, type, amount, cap)
          IN  probe' = [op |-> "transferred", from0 |-> probe.from, to0 |-> probe.to,
                        type |-> type, amount |-> amount, cap |-> cap,
                        from |-> r.from, to |-> r.to, ret |-> r.ret]
    /\ UNCHANGED engineVars

NextWallet == Transfer

SpecWallet == InitWallet /\ [][NextWallet]_vars

C8_TransferNeverNegative ==
    probe.op = "transferred" =>
        \A t \in EnergyType : probe.from[t] >= 0 /\ probe.to[t] >= 0

----------------------------------------------------------------------------
(* Energy.ts: EnergyAccumulator.  The accumulated value is a rational      *)
(* number, held as its numerator over a denominator fixed by the caller.   *)

Accumulator_add(value, amount) == value + amount

\* an extraction that returns the whole units and forgets the remainder
Accumulator_extractUnitsDropRemainder(value, den) ==
    [units |-> value \div den, value |-> 0]

\* extractUnits: Math.floor of the value is returned, the remainder is kept
Accumulator_extractUnits(value, den) ==
    LET units == value \div den
    IN  [units |-> units, value |-> value - units * den]

----------------------------------------------------------------------------
(* Library-level specification of the accumulator: add(r); extractUnits()  *)
(* repeated for a fixed rate r = num / den.                                *)

MaxRateNum == 7     \* rates num/den with num in 0..MaxRateNum
MaxRateDen == 4     \*                and den in 1..MaxRateDen
MaxRepeat == 8      \* repetitions of add; extractUnits

InitAccumulator ==
    /\ NoEngine
    /\ \E num \in 0..MaxRateNum, den \in 1..MaxRateDen :
          probe = [op |-> "accumulator", num |-> num, den |-> den,
                   value |-> 0, n |-> 0, extracted |-> 0]

AddExtract ==
    /\ probe.op = "accumulator"
    /\ probe.n < MaxRepeat
    /\ LET r == Accumulator_extractUnits(Accumulator_add(probe.value, probe.num), probe.den)
       IN  probe' = [probe EXCEPT !.value = r.value, !.n = @ + 1,
                                  !.extracted = @ + r.units]
    /\ UNCHANGED engineVars

NextAccumulator == AddExtract

SpecAccumulator == InitAccumulator /\ [][NextAccumulator]_vars

\* C9: after n repetitions of add(r); extractUnits() the units extracted so far
\* are within 1 of floor(r * n), and the value left is in [0, 1).
C9_ExtractedTracksRate ==
    probe.op = "accumulator" =>
        /\ Abs(probe.extracted - ((probe.num * probe.n) \div probe.den)) <= 1
        /\ 0 <= probe.value /\ probe.value < probe.den

\* all repetitions done at a rate that is not whole, with units extracted and
\* a remainder left
C9_FractionalRateRepeated ==
    /\ probe.op = "accumulator"
    /\ probe.n = MaxRepeat
    /\ probe.num % probe.den # 0
    /\ probe.extracted > 0
    /\ probe.value > 0

----------------------------------------------------------------------------
(* IEEE doubles, for the sum of seven traits.  A non-negative double that  *)
(* is a multiple of 2^-49 is held as the integer k = value * 2^49 in two   *)
(* limbs <<hi, lo>>, k = hi * 2^28 + lo.  Every double from 8 up is such a *)
(* multiple (a double has 53 significant bits), and so is every whole      *)
(* number; the model uses doubles for n / 7 >= 8 and sums below 512.      *)

Limb == 2^28
\* the weight of the whole unit in the limb hi: 2^(49 - 28)
HiUnit == 2^21

RECURSIVE ExtraBits(_, _)
\* how many bits k has beyond 53: the least d with hi < 2^(25+d)
ExtraBits(hi, d) == IF hi < 2^(25 + d) THEN d ELSE ExtraBits(hi, d + 1)

\* round k + (a fraction of its last unit) to 53 significant bits, to nearest,
\* ties to even.  frac is "none", "below" (< 1/2), "half" or "above" (> 1/2).
Double_round(k, frac) ==
    LET d == ExtraBits(k[1], 0)
        unit == 2^d
        low == k[2] % unit
        kept == k[2] - low
        odd == (k[2] \div unit) % 2 = 1
        up == IF d = 0
              THEN frac = "above" \/ (frac = "half" /\ odd)
              ELSE \/ 2 * low > unit
                   \/ 2 * low = unit /\ (frac # "none" \/ odd)
        lo == IF up THEN kept + unit ELSE kept
    IN  IF lo >= Limb THEN <<k[1] + 1, lo - Limb>> ELSE <<k[1], lo>>

\* the double of the whole number n >= 0
Double_fromInt(n) == <<n * HiUnit, 0>>

\* the double nearest to n / 7 (long division of n * 2^49 by 7, limb by limb)
Double_div7(n) ==
    LET hi0 == n * HiUnit
        hi == hi0 \div TraitCount
        r == hi0 % TraitCount
        lo == (r * Limb) \div TraitCount
        r2 == (r * Limb) % TraitCount
        frac == IF r2 = 0 THEN "none"
                ELSE IF 2 * r2 > TraitCount THEN "above" ELSE "below"
    IN  Double_round(<<hi, lo>>, frac)

\* a + b in doubles
Double_add(a, b) ==
    LET lo == a[2] + b[2]
        k == IF lo >= Limb THEN <<a[1] + b[1] + 1, lo - Limb>> ELSE <<a[1] + b[1], lo>>
    IN  Double_round(k, "none")

----------------------------------------------------------------------------
(* Dna.ts.  A Dna is the sequence <<green, red, brown, yellow, pink, blue, *)
(* purple>> of its traits in fixed point.                                  *)

TOTAL_POINTS == 250
MAX_TRAIT_VALUE == 100

Traits == 1..TraitCount
green == 1
red == 2
brown == 3
yellow == 4
pink == 5
blue == 6
purple == 7

\* the exact sum of a sequence of seven numbers
Sum7(v) == v[1] + v[2] + v[3] + v[4] + v[5] + v[6] + v[7]

\* the double the code holds for a trait: a whole number is itself, the
\* fraction n / 7 is the result of the division TOTAL_POINTS / 7
Dna_double(a) == IF IsWhole(a) THEN Double_fromInt(a \div FP) ELSE Double_div7(a)

\* green + red + brown + yellow + pink + blue + purple, as doubles, left to right
Dna_doubleTotal(v) ==
    LET d == [i \in Traits |-> Dna_double(v[i])]
    IN  Double_add(Double_add(Double_add(Double_add(Double_add(Double_add(
            d[1], d[2]), d[3]), d[4]), d[5]), d[6]), d[7])

\* getTotal() === T, for the total points T.  Whole traits add up exactly in doubles.
Dna_totalIs(v, T) ==
    IF \A i \in Traits : IsWhole(v[i])
    THEN Sum7(v) = Whole(T)
    ELSE Dna_doubleTotal(v) = Double_fromInt(T)

\* Math.round(num / den) for num >= 0, den > 0
Round(num, den) == (2 * num + den) \div (2 * den)

RECURSIVE SortAscending(_, _)
\* traits.sort((a, b) => a.value - b.value): the indices by ascending value,
\* equal values in their original order (the sort is stable)
SortAscending(value, left) ==
    IF left = {} THEN <<>>
    ELSE LET i == CHOOSE i \in left : \A j \in left :
                      value[i] < value[j] \/ (value[i] = value[j] /\ i <= j)
         IN  <<i>> \o SortAscending(value, left \ {i})

RECURSIVE Redistribute(_, _, _)
\* the loop of normalize that hands the difference to the sorted traits
Redistribute(value, order, remaining) ==
    IF order = <<>> \/ remaining = 0 THEN value
    ELSE LET i == Head(order)
             currentValue == value[i]
             availableSpace == MAX_TRAIT_VALUE - currentValue
             toAdd == Min(Abs(remaining), availableSpace) * Sign(remaining)
         IN  Redistribute([value EXCEPT ![i] = currentValue + toAdd],
                          Tail(order), remaining - toAdd)

\* Dna.normalize on the seven constructor arguments v (fixed point), with
\* TOTAL_POINTS = T: the traits of the constructed Dna
Dna_normalize(v, T) ==
    LET total == Sum7(v)
    IN  IF total = 0
        THEN \* perTrait = Math.min(TOTAL_POINTS / 7, MAX_TRAIT_VALUE)
             [i \in Traits |-> Min(T, Whole(MAX_TRAIT_VALUE))]
        ELSE IF ~Dna_totalIs(v, T)
        THEN LET scaled == [i \in Traits |-> Min(Round(v[i] * T, total), MAX_TRAIT_VALUE)]
                 cappedTotal == Sum7(scaled)
                 diff == T - cappedTotal
                 out == IF diff # 0
                        THEN Redistribute(scaled, SortAscending(scaled, Traits), diff)
                        ELSE scaled
             IN  [i \in Traits |-> Whole(out[i])]
        ELSE v

\* new Dna(green, red, brown, yellow, pink, blue, purple) for whole arguments
Dna_new(raw, T) == Dna_normalize([i \in Traits |-> Whole(raw[i])], T)

----------------------------------------------------------------------------
(* Library-level specification of Dna: construction from seven whole       *)
(* numbers, under each value of the static TOTAL_POINTS.                   *)

MaxRaw == 1     \* constructor arguments 0..MaxRaw, and the two values below

RawChoices == (0..MaxRaw) \cup {MAX_TRAIT_VALUE, TOTAL_POINTS}
\* Dna.TOTAL_POINTS is set by the settings panel; 250 is the initial value and
\* 100 the value of its reset handler
TotalPointsChoices == {TOTAL_POINTS, 100}

InitDna ==
    /\ NoEngine
    /\ \E raw \in [Traits -> RawChoices], T \in TotalPointsChoices :
          probe = [op |-> "arguments", raw |-> raw, T |-> T]

Construct ==
    /\ probe.op = "arguments"
    /\ probe' = [op |-> "dna", raw |-> probe.raw, T |-> probe.T,
                 dna |-> Dna_new(probe.raw, probe.T)]
    /\ UNCHANGED engineVars

NextDna == Construct

SpecDna == InitDna /\ [][NextDna]_vars

\* C10: for every seven non-negative whole constructor arguments, all zeros
\* included, the traits of the constructed Dna sum to exactly TOTAL_POINTS
\* (the sum being the one getTotal() computes).
C10_SumIsTotalPoints ==
    probe.op = "dna" => Dna_totalIs(probe.dna, probe.T)

\* C11: for every seven non-negative whole constructor arguments, those that
\* already sum to TOTAL_POINTS included, no trait of the constructed Dna
\* exceeds MAX_TRAIT_VALUE.
C11_TraitsWithinCap ==
    probe.op = "dna" => \A i \in Traits : probe.dna[i] <= Whole(MAX_TRAIT_VALUE)

\* C12: for every seven non-negative whole constructor arguments, all zeros
\* included, every trait of the constructed Dna is a non-negative whole number.
C12_TraitsAreNaturals ==
    probe.op = "dna" => \A i \in Traits : IsWhole(probe.dna[i]) /\ probe.dna[i] >= 0

----------------------------------------------------------------------------
(* Dna.ts: mutate and clone *)

\* Math.floor(Dna.TOTAL_POINTS * mutationStrength), the strength in percent
Dna_maxChange(T, strengthPercent) == (T * strengthPercent) \div 100

RECURSIVE Dna_transfers(_, _)
\* the loop of mutate: draws is the sequence of the random draws, one
\* [from, to, amount] for each of the numMutations rounds
Dna_transfers(traits, draws) ==
    IF draws = <<>> THEN traits
    ELSE LET d == Head(draws)
             actualTransfer == Min(Min(Whole(d.amount), traits[d.from]),
                                   Whole(MAX_TRAIT_VALUE) - traits[d.to])
         IN  IF traits[d.to] >= Whole(MAX_TRAIT_VALUE)
             THEN Dna_transfers(traits, Tail(draws))
             ELSE Dna_transfers([traits EXCEPT ![d.from] = @ - actualTransfer,
                                               ![d.to] = @ + actualTransfer],
                                Tail(draws))

\* mutate returning the traits after the transfers, without new Dna(...)
Dna_mutateWithoutConstructor(dna, draws, T) == Dna_transfers(dna, draws)

Dna_mutate(dna, draws, T) == Dna_normalize(Dna_transfers(dna, draws), T)

Dna_clone(dna, T) == Dna_normalize(dna, T)

----------------------------------------------------------------------------
(* GameConfig and the parameters of SimulationEngine.  A trait ratio       *)
(* (trait / 100) of a fixed-point trait is the trait over RatioDen.        *)

maxTileEnergy == 1000
emptyTileEnergyRate == 10
occupiedTileEnergyRate == 5

baseMetabolicDrain == 5
maxPhotosynthesisRate == 20
maxSoilAbsorptionRate == 20
maxParasitismRate == 10
expansionEnergyCost == 400
mushroomEnergyCost == 500
\* mushroomGrowthRate = 0.15 and mutationStrength = 0.15, in hundredths
mushroomGrowthRate == 15
mutationStrength == 15
sporeLifetime == 10
sporeCount == 5
energySharingRate == 100

RatioDen == 100 * FP

\* 1.0 + Math.log(cellCount) * 0.35 for cellCount = 1, 2, ..., in thousandths
\* (rounded to the nearest thousandth)
sizeMultiplier ==
    <<1000, 1243, 1385, 1485, 1563, 1627, 1681, 1728, 1769, 1806, 1839, 1870,
      1898, 1924, 1948, 1970, 1992, 2012, 2031, 2049, 2066, 2082, 2097, 2112, 2127>>

\* the denominator of a cell's metabolism accumulator: efficiency is
\* (875 - yellow) / 875 for a fixed-point yellow, the multiplier is in thousandths
MetabolismDen == 875 * 1000

\* Math.log(0) is -Infinity: the accumulator it is added to holds NaN from then on
NaN == -1

----------------------------------------------------------------------------
(* Tile.ts and Garden.ts.  A tile is a record of its ledger, its soil      *)
(* accumulator (over maxTileEnergy^2) and its occupancy flag.              *)

Grid(n) == (0 .. n - 1) \X (0 .. n - 1)

Tile_new == [energyWallet |-> createEmpty, soilEnergyAccumulator |-> 0, isEmpty |-> TRUE]

Tile_getTotalEnergy(tile) == getTotalUnits(tile.energyWallet)

Tile_addEnergy(tile, amount, maxCapacity, type) ==
    LET totalUnits == getTotalUnits(tile.energyWallet)
        availableSpace == maxCapacity - totalUnits
        actualAmount == Min(Floor(amount), availableSpace)
    IN  IF actualAmount > 0
        THEN [tile EXCEPT !.energyWallet = Wallet_add(@, type, actualAmount, Undefined).wallet]
        ELSE tile

Tile_removeEnergy(tile, amount, type) ==
    LET r == Wallet_remove(tile.energyWallet, type, amount)
    IN  [tile |-> [tile EXCEPT !.energyWallet = r.wallet], ret |-> r.ret]

\* Garden.updateTileEnergy with GameConfig.calculateGenerationRate: the rate is
\* baseRate * (1 - (currentEnergy / maxTileEnergy)^2); a tile holds whole units
updateTileEnergy(tile, deltaTime) ==
    LET baseRate == IF tile.isEmpty THEN emptyTileEnergyRate ELSE occupiedTileEnergyRate
        currentSoilUnits == Tile_getTotalEnergy(tile) \div FP
        fractionalEnergy == baseRate * (maxTileEnergy^2 - currentSoilUnits^2) * deltaTime
        e == Accumulator_extractUnits(
                 Accumulator_add(tile.soilEnergyAccumulator, fractionalEnergy),
                 maxTileEnergy^2)
        t1 == [tile EXCEPT !.soilEnergyAccumulator = e.value]
    IN  IF e.units > 0
        THEN Tile_addEnergy(t1, Whole(e.units), Whole(maxTileEnergy), "SOIL_UNIT")
        ELSE t1

Garden_update(garden, deltaTime) ==
    [p \in DOMAIN garden |-> updateTileEnergy(garden[p], deltaTime)]

----------------------------------------------------------------------------
(* Cell.ts.  A cell is a record; id is the identity of the object.  The    *)
(* field emptied records that some removal left the ledger with a total of *)
(* zero (history, not read by the program).                                *)

Cell_new(id, x, y, fungusId, dna, initialEnergy) ==
    LET \* 300 + (pink / 100) * 2700
        maxEnergyCapacity == Whole(300) + dna[pink] * 27
        initial == Min(Floor(initialEnergy), maxEnergyCapacity)
    IN  [id |-> id, x |-> x, y |-> y, fungus |-> fungusId,
         energyWallet |-> [createEmpty EXCEPT !["NUTRITION_UNIT"] = initial],
         maxEnergyCapacity |-> maxEnergyCapacity,
         metabolismAccumulator |-> 0, soilAbsorptionAccumulator |-> 0,
         photosynthesisAccumulator |-> 0, parasitismAccumulator |-> 0,
         alive |-> TRUE, hasMushroom |-> FALSE, mushroomGrowth |-> 0,
         emptied |-> FALSE]

Cell_getEnergy(cell) == getTotalUnits(cell.energyWallet)

Cell_getPositionKey(cell) == <<cell.x, cell.y>>

Cell_addEnergy(cell, amount, type) ==
    LET a == Wallet_add(cell.energyWallet, type, amount, Some(cell.maxEnergyCapacity))
    IN  [cell |-> [cell EXCEPT !.energyWallet = a.wallet], ret |-> a.ret]

Cell_die(cell) == [cell EXCEPT !.alive = FALSE, !.energyWallet = createEmpty]

\* removeEnergy without the check for death
Cell_removeEnergyWithoutDeath(cell, amount, type) ==
    LET r == Wallet_remove(cell.energyWallet, type, amount)
        c1 == [cell EXCEPT !.energyWallet = r.wallet]
    IN  [cell |-> [c1 EXCEPT !.emptied = @ \/ Cell_getEnergy(c1) = 0], ret |-> r.ret]

Cell_removeEnergy(cell, amount, type) ==
    LET r == Wallet_remove(cell.energyWallet, type, amount)
        c1 == [cell EXCEPT !.energyWallet = r.wallet]
    IN  IF Cell_getEnergy(c1) = 0
        THEN [cell |-> Cell_die([c1 EXCEPT !.emptied = TRUE]), ret |-> r.ret]
        ELSE [cell |-> c1, ret |-> r.ret]

\* an isFull() that measures the overflow above nine tenths of the capacity
Cell_isFullAboveNineTenths(cell) ==
    IF 10 * Cell_getEnergy(cell) > 9 * cell.maxEnergyCapacity
    THEN Cell_getEnergy(cell) - (9 * cell.maxEnergyCapacity) \div 10
    ELSE 0

\* isFull(): the overflow above the capacity
Cell_isFull(cell) ==
    IF Cell_getEnergy(cell) >= cell.maxEnergyCapacity
    THEN Cell_getEnergy(cell) - cell.maxEnergyCapacity
    ELSE 0

Cell_getEnergyDeficit(cell) == cell.maxEnergyCapacity - Cell_getEnergy(cell)

Cell_startMushroom(cell) == [cell EXCEPT !.hasMushroom = TRUE, !.mushroomGrowth = 0]

\* growMushroom: the growth is in hundredths
Cell_growMushroom(cell, amount) ==
    IF cell.hasMushroom
    THEN [cell EXCEPT !.mushroomGrowth = Min(100, @ + amount)]
    ELSE cell

Cell_isMushroomMature(cell) == cell.hasMushroom /\ cell.mushroomGrowth >= 100

\* the mushroom left as it is
Cell_keepMushroom(cell) == cell

Cell_removeMushroom(cell) == [cell EXCEPT !.hasMushroom = FALSE, !.mushroomGrowth = 0]

----------------------------------------------------------------------------
(* Fungus.ts.  A Fungus object is a record; its cells collection maps the  *)
(* position keys to the identities of the cells stored under them.         *)

Fungus_new(id, dna, generation) ==
    [id |-> id, dna |-> dna, generation |-> generation, cells |-> [k \in {} |-> 0]]

Fungus_addCell(fungusRec, cell) ==
    LET key == Cell_getPositionKey(cell)
    IN  [fungusRec EXCEPT !.cells =
            [k \in DOMAIN @ \cup {key} |-> IF k = key THEN cell.id ELSE @[k]]]

\* a removal that leaves the collection as it is
Fungus_removeCellKeeps(fungusRec, cell) == fungusRec

Fungus_removeCell(fungusRec, cell) ==
    LET key == Cell_getPositionKey(cell)
    IN  [fungusRec EXCEPT !.cells = [k \in DOMAIN @ \ {key} |-> @[k]]]

Fungus_getCellCount(fungusRec) == Cardinality(DOMAIN fungusRec.cells)

----------------------------------------------------------------------------
(* SimulationEngine.ts.  The engine's world is a record w:                 *)
(*   cells   - the position map, as the sequence of its cells in insertion *)
(*             order (a cell is stored under its own position key)         *)
(*   heap    - the Fungus objects that are still referenced, by id         *)
(*   fungi   - the ids in the organism index (iterated in insertion order, *)
(*             which is the order of the ids)                              *)
(*   tiles   - the garden's tiles, by position                             *)
(*   spores  - the spores in flight, in order                              *)
(*   nextId  - Fungus.nextId                                               *)
(*   nextCell - the identity the next Cell object gets                     *)

\* the index in cs of the cell stored under (x, y), 0 if there is none
IndexAt(cs, x, y) ==
    IF \E i \in 1..Len(cs) : cs[i].x = x /\ cs[i].y = y
    THEN CHOOSE i \in 1..Len(cs) : cs[i].x = x /\ cs[i].y = y
    ELSE 0

\* the index in cs of the cell object id, 0 if it is not stored
IndexOf(cs, id) ==
    IF \E i \in 1..Len(cs) : cs[i].id = id
    THEN CHOOSE i \in 1..Len(cs) : cs[i].id = id
    ELSE 0

AdjacentOffsets ==
    << <<-1, 0>>, <<1, 0>>, <<0, -1>>, <<0, 1>>,
       <<-1, -1>>, <<-1, 1>>, <<1, -1>>, <<1, 1>> >>

ExpansionOffsets == << <<-1, 0>>, <<1, 0>>, <<0, -1>>, <<0, 1>> >>

\* getAdjacentCells: the indices of the living neighbours, in the order of the offsets
getAdjacentCells(cs, cell) ==
    LET at == [k \in 1..Len(AdjacentOffsets) |->
                  IndexAt(cs, cell.x + AdjacentOffsets[k][1], cell.y + AdjacentOffsets[k][2])]
    IN  SelectSeq(at, LAMBDA i : i # 0 /\ cs[i].alive)

\* getEmptyAdjacentPositions, as a set (one of them is picked at random)
getEmptyAdjacentPositions(w, cell, gridSize) ==
    {p \in Grid(gridSize) :
        /\ \E k \in 1..Len(ExpansionOffsets) :
               p = <<cell.x + ExpansionOffsets[k][1], cell.y + ExpansionOffsets[k][2]>>
        /\ w.tiles[p].isEmpty
        /\ IndexAt(w.cells, p[1], p[2]) = 0}

\* Map.set(key, cell): a new key goes to the end, a known key keeps its place
Cells_set(cs, cell) ==
    LET i == IndexAt(cs, cell.x, cell.y)
    IN  IF i = 0 THEN Append(cs, cell) ELSE [cs EXCEPT ![i] = cell]

\* Map.delete(key)
Cells_delete(cs, key) == SelectSeq(cs, LAMBDA c : Cell_getPositionKey(c) # key)

\* an addCell that enters the cell and leaves the tile's flag alone
addCellLeavesTile(w, cell) ==
    [w EXCEPT !.cells = Cells_set(@, cell),
              !.heap[cell.fungus] = Fungus_addCell(@, cell)]

addCell(w, cell) ==
    [w EXCEPT !.cells = Cells_set(@, cell),
              !.heap[cell.fungus] = Fungus_addCell(@, cell),
              !.tiles[Cell_getPositionKey(cell)].isEmpty = FALSE]

removeCell(w, cell) ==
    [w EXCEPT !.cells = Cells_delete(@, Cell_getPositionKey(cell)),
              !.heap[cell.fungus] = Fungus_removeCell(@, cell),
              !.tiles[Cell_getPositionKey(cell)].isEmpty = TRUE]

\* new Fungus(dna, generation), entered in the index
newFungus(w, dna, generation) ==
    [w EXCEPT !.heap = [i \in DOMAIN @ \cup {w.nextId} |->
                           IF i = w.nextId THEN Fungus_new(w.nextId, dna, generation)
                           ELSE @[i]],
              !.fungi = @ \cup {w.nextId},
              !.nextId = @ + 1]

\* new Cell(x, y, fungus, initialEnergy) followed by addCell
newCell(w, x, y, fungusId, initialEnergy) ==
    LET cell == Cell_new(w.nextCell, x, y, fungusId, w.heap[fungusId].dna, initialEnergy)
    IN  [addCell(w, cell) EXCEPT !.nextCell = @ + 1]

\* a createFungus that looks for a tile and not at what the tile holds
createFungusOnAnyTile(w, x, y, dna, gridSize) ==
    IF <<x, y>> \notin Grid(gridSize)
    THEN [w |-> w, ret |-> Undefined]
    ELSE [w |-> newCell(newFungus(w, dna, 0), x, y, w.nextId, Whole(50)),
          ret |-> Some(w.nextId)]

\* createFungus(x, y, dna): the world after the call and the id of the Fungus
\* returned, Undefined for null
createFungus(w, x, y, dna, gridSize) ==
    IF <<x, y>> \notin Grid(gridSize) \/ ~w.tiles[<<x, y>>].isEmpty
    THEN [w |-> w, ret |-> Undefined]
    ELSE [w |-> newCell(newFungus(w, dna, 0), x, y, w.nextId, Whole(50)),
          ret |-> Some(w.nextId)]

\* a clear that forgets the cells and organisms and keeps the spores and tiles
clearCellsOnly(w) ==
    [w EXCEPT !.cells = <<>>, !.fungi = {}]

clear(w) ==
    [w EXCEPT !.cells = <<>>,
              !.fungi = {},
              !.spores = <<>>,
              !.tiles = [p \in DOMAIN @ |-> [@[p] EXCEPT !.isEmpty = TRUE]]]

----------------------------------------------------------------------------
(* Step 1-3 of update, for one cell *)

applyMetabolism(cell, fungusRec, deltaTime) ==
    LET cellCount == Fungus_getCellCount(fungusRec)
    IN  IF cellCount = 0 \/ cell.metabolismAccumulator = NaN
        THEN [cell EXCEPT !.metabolismAccumulator = NaN]
        ELSE LET \* baseMetabolicDrain * efficiency * sizeMultiplier * deltaTime
                 drain == baseMetabolicDrain * (875 - fungusRec.dna[yellow])
                              * sizeMultiplier[cellCount] * deltaTime
                 e == Accumulator_extractUnits(
                          Accumulator_add(cell.metabolismAccumulator, drain), MetabolismDen)
                 c1 == [cell EXCEPT !.metabolismAccumulator = e.value]
             IN  IF e.units > 0
                 THEN Cell_removeEnergy(c1, Whole(e.units), "NUTRITION_UNIT").cell
                 ELSE c1

applyPhotosynthesis(cell, dna, deltaTime, sunEnergyPerTile) ==
    IF sunEnergyPerTile <= 0 THEN cell
    ELSE LET \* Math.min(greenRatio * maxPhotosynthesisRate, sunEnergyPerTile) * deltaTime
             continuousAbsorption ==
                 Min(dna[green] * maxPhotosynthesisRate, RatioDen * sunEnergyPerTile) * deltaTime
             e == Accumulator_extractUnits(
                      Accumulator_add(cell.photosynthesisAccumulator, continuousAbsorption),
                      RatioDen)
             c1 == [cell EXCEPT !.photosynthesisAccumulator = e.value]
         IN  IF e.units > 0
             THEN Cell_addEnergy(c1, Whole(e.units), "SUN_UNIT").cell
             ELSE c1

\* the cell and its tile after the call
applySoilAbsorption(cell, tile, dna, deltaTime) ==
    IF Tile_getTotalEnergy(tile) <= 0 THEN [cell |-> cell, tile |-> tile]
    ELSE LET maxAbsorption == dna[brown] * maxSoilAbsorptionRate * deltaTime
             e == Accumulator_extractUnits(
                      Accumulator_add(cell.soilAbsorptionAccumulator, maxAbsorption), RatioDen)
             c1 == [cell EXCEPT !.soilAbsorptionAccumulator = e.value]
             r == Tile_removeEnergy(tile, Whole(e.units), "SOIL_UNIT")
         IN  IF e.units > 0
             THEN IF r.ret > 0
                  THEN [cell |-> Cell_addEnergy(c1, r.ret, "SOIL_UNIT").cell, tile |-> r.tile]
                  ELSE [cell |-> c1, tile |-> r.tile]
             ELSE [cell |-> c1, tile |-> tile]

RECURSIVE DrainNeighbors(_, _, _, _, _)
\* the loop of applyParasitism over the neighbours of other organisms; the
\* drain per neighbour is continuousDrainPerNeighbor / den units
DrainNeighbors(cs, i, nonRelatives, continuousDrainPerNeighbor, den) ==
    IF nonRelatives = <<>> THEN cs
    ELSE LET j == Head(nonRelatives)
             e == Accumulator_extractUnits(
                      Accumulator_add(cs[i].parasitismAccumulator, continuousDrainPerNeighbor),
                      den)
             cs1 == [cs EXCEPT ![i].parasitismAccumulator = e.value]
             r == Cell_removeEnergy(cs1[j], Whole(e.units), "NUTRITION_UNIT")
             cs2 == [cs1 EXCEPT ![j] = r.cell]
             cs3 == IF r.ret > 0
                    THEN [cs2 EXCEPT ![i] = Cell_addEnergy(@, r.ret, "NUTRITION_UNIT").cell]
                    ELSE cs2
         IN  DrainNeighbors(IF e.units > 0 THEN cs3 ELSE cs1, i, Tail(nonRelatives),
                            continuousDrainPerNeighbor, den)

\* applyParasitism draining every living neighbour, relatives included
applyParasitismOnAll(cs, i, dna, time, timeDen) ==
    IF dna[red] <= 0 THEN cs
    ELSE DrainNeighbors(cs, i, getAdjacentCells(cs, cs[i]),
                        dna[red] * maxParasitismRate * time, RatioDen * timeDen)

\* the cells after applyParasitism for the cell at index i, whose organism has
\* dna, with deltaTime = time / timeDen seconds
applyParasitismOver(cs, i, dna, time, timeDen) ==
    IF dna[red] <= 0 THEN cs
    ELSE LET nonRelatives == SelectSeq(getAdjacentCells(cs, cs[i]),
                                       LAMBDA j : cs[j].fungus # cs[i].fungus)
         IN  DrainNeighbors(cs, i, nonRelatives,
                            dna[red] * maxParasitismRate * time, RatioDen * timeDen)

\* applyParasitism in a frame of deltaTime whole seconds
applyParasitism(cs, i, dna, deltaTime) == applyParasitismOver(cs, i, dna, deltaTime, 1)

applyEnergyConversion(cell) ==
    LET sunUnits == cell.energyWallet["SUN_UNIT"]
        soilUnits == cell.energyWallet["SOIL_UNIT"]
    IN  IF sunUnits > 0
        THEN Cell_addEnergy(Cell_removeEnergy(cell, sunUnits, "SUN_UNIT").cell,
                            sunUnits, "NUTRITION_UNIT").cell
        ELSE IF soilUnits > 0
        THEN Cell_addEnergy(Cell_removeEnergy(cell, soilUnits, "SOIL_UNIT").cell,
                            soilUnits, "NUTRITION_UNIT").cell
        ELSE cell

RECURSIVE pushSpores(_, _, _, _, _)
\* the loop of releaseSpores: landing[k] is where the k-th spore is thrown
\* (a position, possibly outside the grid)
pushSpores(list, landing, dna, parentFungusId, gridSize) ==
    IF landing = <<>> THEN list
    ELSE pushSpores(
             IF Head(landing) \in Grid(gridSize)
             THEN Append(list, [x |-> Head(landing)[1], y |-> Head(landing)[2],
                                  dna |-> dna, lifetime |-> sporeLifetime,
                                  parentFungusId |-> parentFungusId])
             ELSE list,
             Tail(landing), dna, parentFungusId, gridSize)

\* steps 1 and 2 for the cell at index i: metabolism, photosynthesis, soil
\* absorption and parasitism
absorbEnergy(w, i, deltaTime, sunEnergyPerTile) ==
    LET cell == w.cells[i]
        fungusRec == w.heap[cell.fungus]
        dna == fungusRec.dna
        key == Cell_getPositionKey(cell)
        c1 == applyMetabolism(cell, fungusRec, deltaTime)
        c2 == applyPhotosynthesis(c1, dna, deltaTime, sunEnergyPerTile)
        s == applySoilAbsorption(c2, w.tiles[key], dna, deltaTime)
        cs4 == applyParasitism([w.cells EXCEPT ![i] = s.cell], i, dna, deltaTime)
    IN  [w EXCEPT !.cells = cs4, !.tiles[key] = s.tile]

\* steps 1, 2 and 2b of the first loop of update for the cell at index i
acquireEnergy(w, i, deltaTime, sunEnergyPerTile) ==
    LET w4 == absorbEnergy(w, i, deltaTime, sunEnergyPerTile)
    IN  [w4 EXCEPT !.cells[i] = applyEnergyConversion(@)]

----------------------------------------------------------------------------
(* Step 4 of update: expansion and reproduction of one cell *)

\* cell.getEnergy() >= cost * (1.0 - ratio * 1.0) * 1.2, for the fixed-point trait
reachesThreshold(cell, cost, trait) ==
    Cell_getEnergy(cell) * 1000 >= 12 * cost * (RatioDen - trait)

\* Math.floor(cost * (1.0 - ratio * 0.8)), for the fixed-point trait
actualCost(cost, trait) == (cost * (5 * RatioDen - 4 * trait)) \div (5 * RatioDen)

\* attemptExpansion can take place: the cell has the cost and an empty neighbour
canExpand(w, i, gridSize) ==
    LET cell == w.cells[i]
        cost == actualCost(expansionEnergyCost, w.heap[cell.fungus].dna[blue])
    IN  /\ cell.energyWallet["NUTRITION_UNIT"] >= Whole(cost)
        /\ getEmptyAdjacentPositions(w, cell, gridSize) # {}

\* an expansion that the parent does not pay for
attemptExpansionUnpaid(w, i, pos) ==
    LET cell == w.cells[i]
        cost == actualCost(expansionEnergyCost, w.heap[cell.fungus].dna[blue])
    IN  newCell(w, pos[1], pos[2], cell.fungus, Whole(cost \div 2))

\* attemptExpansion of the cell at index i into the position pos picked
attemptExpansion(w, i, pos) ==
    LET cell == w.cells[i]
        cost == actualCost(expansionEnergyCost, w.heap[cell.fungus].dna[blue])
        paid == Cell_removeEnergy(cell, Whole(cost), "NUTRITION_UNIT").cell
        startingEnergy == Whole(cost \div 2)
    IN  newCell([w EXCEPT !.cells[i] = paid], pos[1], pos[2], cell.fungus, startingEnergy)

\* a reproduction that takes what Nutrition there is
attemptReproductionOnCredit(cell, dna) ==
    LET cost == actualCost(mushroomEnergyCost, dna[purple])
    IN  IF cell.hasMushroom
        THEN cell
        ELSE Cell_startMushroom(Cell_removeEnergy(cell, Whole(cost), "NUTRITION_UNIT").cell)

attemptReproduction(cell, dna) ==
    LET cost == actualCost(mushroomEnergyCost, dna[purple])
    IN  IF cell.hasMushroom \/ cell.energyWallet["NUTRITION_UNIT"] < Whole(cost)
        THEN cell
        ELSE Cell_startMushroom(Cell_removeEnergy(cell, Whole(cost), "NUTRITION_UNIT").cell)

\* the second half of the loop body: the mushroom of the cell at index i
reproduce(w, i) ==
    LET cell == w.cells[i]
        dna == w.heap[cell.fungus].dna
    IN  IF ~cell.hasMushroom /\ reachesThreshold(cell, mushroomEnergyCost, dna[purple])
        THEN [w EXCEPT !.cells[i] = attemptReproduction(cell, dna)]
        ELSE w

----------------------------------------------------------------------------
(* Step 5 of update: performEnergySharing *)

RECURSIVE pushSurplus(_, _, _, _)
\* the push loop: share is Math.floor of sharePerNeighbor, in whole units
pushSurplus(cs, i, neighbors, share) ==
    IF neighbors = <<>> THEN cs
    ELSE LET n == Head(neighbors)
             \* removeEnergy and addEnergy floor the amount they are given
             transferred == Min(Whole(share), Floor(Cell_getEnergyDeficit(cs[n])))
             cs1 == [cs EXCEPT ![i] = Cell_removeEnergy(@, transferred, "NUTRITION_UNIT").cell]
             cs2 == [cs1 EXCEPT ![n] = Cell_addEnergy(@, transferred, "NUTRITION_UNIT").cell]
         IN  pushSurplus(cs2, i, Tail(neighbors), share)

RECURSIVE pullFromAll(_, _, _, _)
\* a pull that takes from every neighbour, whatever it holds
pullFromAll(cs, i, neighbors, pull) ==
    IF neighbors = <<>> THEN cs
    ELSE LET n == Head(neighbors)
             transferred == Min(Whole(pull), Whole(Cell_getEnergy(cs[n]) \div (10 * FP)))
             cs1 == [cs EXCEPT ![n] = Cell_removeEnergy(@, transferred, "NUTRITION_UNIT").cell]
             cs2 == [cs1 EXCEPT ![i] = Cell_addEnergy(@, transferred, "NUTRITION_UNIT").cell]
         IN  pullFromAll(cs2, i, Tail(neighbors), pull)

RECURSIVE pullEmergency(_, _, _, _)
\* the pull loop: pull is Math.floor of pullPerNeighbor, in whole units
pullEmergency(cs, i, neighbors, pull) ==
    IF neighbors = <<>> THEN cs
    ELSE LET n == Head(neighbors)
             \* neighbor.getEnergyRatio() > 0.5
             healthy == 2 * Cell_getEnergy(cs[n]) > cs[n].maxEnergyCapacity
             \* Math.min(pullPerNeighbor, neighbor.getEnergy() * 0.1), floored
             transferred == Min(Whole(pull), Whole(Cell_getEnergy(cs[n]) \div (10 * FP)))
             cs1 == [cs EXCEPT ![n] = Cell_removeEnergy(@, transferred, "NUTRITION_UNIT").cell]
             cs2 == [cs1 EXCEPT ![i] = Cell_addEnergy(@, transferred, "NUTRITION_UNIT").cell]
         IN  pullEmergency(IF healthy THEN cs2 ELSE cs, i, Tail(neighbors), pull)

\* the body of the loop of performEnergySharing for the cell at index i
shareEnergy(cs, i, deltaTime) ==
    LET cell == cs[i]
        neighbors == SelectSeq(getAdjacentCells(cs, cell),
                               LAMBDA n : cs[n].fungus = cell.fungus)
        k == Len(neighbors)
        \* energyRatio > 0.9 and energyRatio < 0.2
        veryFull == 10 * Cell_getEnergy(cell) > 9 * cell.maxEnergyCapacity
        starving == 10 * Cell_getEnergy(cell) < 2 * cell.maxEnergyCapacity
        surplus == Cell_isFull(cell)
        \* Math.floor((surplus * 0.5) / neighbors.length)
        pushed == IF veryFull /\ surplus > 0
                  THEN pushSurplus(cs, i, neighbors, surplus \div (2 * k * FP))
                  ELSE cs
        needed == Cell_getEnergyDeficit(pushed[i])
        pullRate == Whole(energySharingRate * deltaTime)
        \* Math.floor(Math.min(pullRate, needed) / neighbors.length)
        pulled == IF starving
                  THEN pullEmergency(pushed, i, neighbors, Min(pullRate, needed) \div (k * FP))
                  ELSE pushed
    IN  IF ~cell.alive \/ k = 0 THEN cs ELSE pulled

RECURSIVE performEnergySharing(_, _, _)
performEnergySharing(cs, i, deltaTime) ==
    IF i > Len(cs) THEN cs
    ELSE performEnergySharing(shareEnergy(cs, i, deltaTime), i + 1, deltaTime)

----------------------------------------------------------------------------
(* Step 6 of update: updateSpores and germinateSpore *)

germinateSpore(w, spore) ==
    newCell(newFungus(w, spore.dna, 0), spore.x, spore.y, w.nextId, Whole(50))

RECURSIVE updateSporesOntoCells(_, _, _, _)
\* an updateSpores that germinates without looking for a cell at the position
updateSporesOntoCells(w, list, remainingSpores, deltaTime) ==
    IF list = <<>> THEN [w EXCEPT !.spores = remainingSpores]
    ELSE LET spore == [Head(list) EXCEPT !.lifetime = @ - deltaTime]
         IN  IF spore.lifetime > 0
             THEN updateSporesOntoCells(germinateSpore(w, spore), Tail(list),
                                        remainingSpores, deltaTime)
             ELSE updateSporesOntoCells(w, Tail(list), remainingSpores, deltaTime)

RECURSIVE updateSporesKeepingExpired(_, _, _, _)
\* an updateSpores that keeps the spores that do not germinate, expired or not
updateSporesKeepingExpired(w, list, remainingSpores, deltaTime) ==
    IF list = <<>> THEN [w EXCEPT !.spores = remainingSpores]
    ELSE LET spore == [Head(list) EXCEPT !.lifetime = @ - deltaTime]
             existingCell == IndexAt(w.cells, spore.x, spore.y) # 0
         IN  IF ~existingCell /\ spore.lifetime > 0
             THEN updateSporesKeepingExpired(germinateSpore(w, spore), Tail(list),
                                             remainingSpores, deltaTime)
             ELSE updateSporesKeepingExpired(w, Tail(list), Append(remainingSpores, spore),
                                             deltaTime)

RECURSIVE updateSpores(_, _, _, _)
\* list: the spores still to visit; remainingSpores: those kept so far
updateSpores(w, list, remainingSpores, deltaTime) ==
    IF list = <<>> THEN [w EXCEPT !.spores = remainingSpores]
    ELSE LET spore == [Head(list) EXCEPT !.lifetime = @ - deltaTime]
             existingCell == IndexAt(w.cells, spore.x, spore.y) # 0
         IN  IF ~existingCell /\ spore.lifetime > 0
             THEN updateSpores(germinateSpore(w, spore), Tail(list),
                               remainingSpores, deltaTime)
             ELSE IF spore.lifetime > 0
             THEN updateSpores(w, Tail(list), Append(remainingSpores, spore), deltaTime)
             ELSE updateSpores(w, Tail(list), remainingSpores, deltaTime)

----------------------------------------------------------------------------
(* Step 7 of update: removeDeadCells *)

RECURSIVE removeCells(_, _)
removeCells(w, cellList) ==
    IF cellList = <<>> THEN w
    ELSE removeCells(removeCell(w, Head(cellList)), Tail(cellList))

\* a sweep that removes the dead cells and keeps the organisms left without cells
removeDeadCellsKeepsFungi(w) ==
    removeCells(w, SelectSeq(w.cells, LAMBDA c : ~c.alive))

removeDeadCells(w) ==
    LET deadCells == SelectSeq(w.cells, LAMBDA c : ~c.alive)
        w1 == removeCells(w, deadCells)
        deadFungi == {id \in w1.fungi : Fungus_getCellCount(w1.heap[id]) = 0}
    IN  [w1 EXCEPT !.fungi = @ \ deadFungi]

----------------------------------------------------------------------------
(* Step 8 of update: splitDisconnectedFungi *)

RECURSIVE visitNeighbors(_, _, _)
\* the inner loop of the flood fill: the neighbours not visited yet are marked
\* and queued.  s is [queue, visited], of indices and of position keys.
visitNeighbors(cs, neighbors, s) ==
    IF neighbors = <<>> THEN s
    ELSE LET neighborKey == Cell_getPositionKey(cs[Head(neighbors)])
         IN  visitNeighbors(cs, Tail(neighbors),
                 IF neighborKey \notin s.visited
                 THEN [queue |-> Append(s.queue, Head(neighbors)),
                       visited |-> s.visited \cup {neighborKey}]
                 ELSE s)

RECURSIVE floodFill(_, _, _, _)
\* the while loop of the flood fill: [group, visited], the group in the
\* order the cells leave the queue
floodFill(cs, fungusId, s, group) ==
    IF s.queue = <<>> THEN [group |-> group, visited |-> s.visited]
    ELSE LET cell == Head(s.queue)
             neighbors == SelectSeq(getAdjacentCells(cs, cs[cell]),
                                    LAMBDA n : cs[n].fungus = fungusId)
         IN  floodFill(cs, fungusId,
                       visitNeighbors(cs, neighbors,
                                      [queue |-> Tail(s.queue), visited |-> s.visited]),
                       Append(group, cell))

RECURSIVE findGroups(_, _, _, _, _)
\* the loop over fungusCells: the connected groups in the order they are found
findGroups(cs, fungusId, fungusCells, visited, groups) ==
    IF fungusCells = <<>> THEN groups
    ELSE LET startCell == Head(fungusCells)
             key == Cell_getPositionKey(cs[startCell])
             f == floodFill(cs, fungusId,
                            [queue |-> <<startCell>>, visited |-> visited \cup {key}], <<>>)
         IN  IF key \in visited
             THEN findGroups(cs, fungusId, Tail(fungusCells), visited, groups)
             ELSE findGroups(cs, fungusId, Tail(fungusCells), f.visited,
                             Append(groups, f.group))

RECURSIVE sortAscendingByLength(_)
\* a sort that puts the smallest group first
sortAscendingByLength(groups) ==
    IF groups = <<>> THEN <<>>
    ELSE LET i == CHOOSE i \in 1..Len(groups) : \A j \in 1..Len(groups) :
                      Len(groups[i]) < Len(groups[j])
                      \/ (Len(groups[i]) = Len(groups[j]) /\ i <= j)
         IN  <<groups[i]>> \o sortAscendingByLength(
                 [k \in 1..(Len(groups) - 1) |-> IF k < i THEN groups[k] ELSE groups[k + 1]])

RECURSIVE sortByLength(_)
\* groups.sort((a, b) => b.length - a.length): the longest first, groups of
\* the same length in the order they were found
sortByLength(groups) ==
    IF groups = <<>> THEN <<>>
    ELSE LET i == CHOOSE i \in 1..Len(groups) : \A j \in 1..Len(groups) :
                      Len(groups[i]) > Len(groups[j])
                      \/ (Len(groups[i]) = Len(groups[j]) /\ i <= j)
         IN  <<groups[i]>> \o sortByLength(
                 [k \in 1..(Len(groups) - 1) |-> IF k < i THEN groups[k] ELSE groups[k + 1]])

RECURSIVE rehomeCells(_, _, _)
\* the loop over the cells of a group: each old cell is removed and a new cell
\* of the new organism is added in its place
rehomeCells(w, oldCells, fungusId) ==
    IF oldCells = <<>> THEN w
    ELSE LET oldCell == Head(oldCells)
             w1 == removeCell(w, oldCell)
             w2 == newCell(w1, oldCell.x, oldCell.y, fungusId, Cell_getEnergy(oldCell))
             i == Len(w2.cells)
             w3 == IF oldCell.hasMushroom
                   THEN [w2 EXCEPT !.cells[i] =
                            [Cell_startMushroom(@) EXCEPT !.mushroomGrowth = oldCell.mushroomGrowth]]
                   ELSE w2
         IN  rehomeCells(w3, Tail(oldCells), fungusId)

RECURSIVE rehomeGroups(_, _, _, _)
\* the loop over groups[1..]: a new organism for each, with a clone of the dna
rehomeGroups(w, groups, fungusRec, T) ==
    IF groups = <<>> THEN w
    ELSE LET w1 == newFungus(w, Dna_clone(fungusRec.dna, T), fungusRec.generation)
         IN  rehomeGroups(rehomeCells(w1, Head(groups), w.nextId), Tail(groups), fungusRec, T)

\* the body of the loop of splitDisconnectedFungi for the organism fungusId
splitFungus(w, fungusId, T) ==
    LET cs == w.cells
        fungusCells == SelectSeq([i \in 1..Len(cs) |-> i], LAMBDA i : cs[i].fungus = fungusId)
        groups == sortByLength(findGroups(cs, fungusId, fungusCells, {}, <<>>))
        \* the groups as the cell objects they hold
        objects == [g \in 1..Len(groups) |-> [k \in 1..Len(groups[g]) |-> cs[groups[g][k]]]]
    IN  IF Len(fungusCells) <= 1 \/ Len(groups) <= 1 THEN w
        ELSE rehomeGroups(w, Tail(objects), w.heap[fungusId], T)

RECURSIVE splitFrom(_, _, _)
\* the loop over this.fungi.values(), from the first id not below fungusId:
\* organisms added while it runs are visited too
splitFrom(w, fungusId, T) ==
    IF \A id \in w.fungi : id < fungusId THEN w
    ELSE LET next == CHOOSE id \in w.fungi :
                         id >= fungusId /\ \A other \in w.fungi : other >= fungusId => id <= other
         IN  splitFrom(splitFungus(w, next, T), next + 1, T)

\* a split pass that leaves every organism as it is
splitNothing(w, T) == w

splitDisconnectedFungi(w, T) == splitFrom(w, 0, T)

----------------------------------------------------------------------------
(* The simulation: a Game with its Garden and SimulationEngine.  A frame   *)
(* (Game.animate) runs SimulationEngine.update and then Garden.update; pc  *)
(* is the step of the frame that runs next, "idle" between frames, where   *)
(* the user's createFungus and clear take place.                           *)

GridSize == 3       \* the garden of the environment "bed" is GridSize x GridSize
MaxTicksPot == 8    \* frames in the environment "pot"
MaxTicksBed == 2    \* frames in the environment "bed"
MaxTicksRow == 2    \* frames in the environment "row"
MaxSpawns == 2      \* calls of createFungus
MaxUserTick == 1    \* the user calls createFungus and clear until this many frames have run

\* the arguments of new Dna(): its defaults, all zeros, a fast spreader and
\* one with the lowest metabolism
DefaultDna == <<15, 10, 15, 15, 15, 15, 15>>
ZeroDna == <<0, 0, 0, 0, 0, 0, 0>>
SpreaderDna == <<100, 0, 0, 43, 8, 99, 0>>
ThriftyDna == <<35, 10, 35, 100, 35, 16, 19>>

\* The environments: the size of the garden, what the user spawns and
\* where, the frame times (seconds) and sun levels the frames draw from, and
\* the random draws of mutate (rounds of [from, to, amount]) and of the
\* scatter of spores (offsets from the mushroom).
Environments ==
    { [name |-> "pot", gridSize |-> 1, dnas |-> {ZeroDna},
       positions |-> {<<0, 0>>}, frameTimes |-> {10, 30}, suns |-> {20},
       maxTicks |-> MaxTicksPot,
       mutations |-> {<<[from |-> green, to |-> red, amount |-> 1]>>},
       scatter |-> {<<0, 0>>, <<1, 0>>}],
      [name |-> "bed", gridSize |-> GridSize, dnas |-> {SpreaderDna},
       positions |-> {<<1, 1>>, <<GridSize, GridSize>>}, frameTimes |-> {2, 5},
       suns |-> {20},
       maxTicks |-> MaxTicksBed,
       mutations |-> {<<[from |-> green, to |-> red, amount |-> 1]>>},
       scatter |-> {<<0, 0>>, <<1, 0>>}],
      [name |-> "row", gridSize |-> GridSize, dnas |-> {DefaultDna, ThriftyDna},
       positions |-> {<<0, 0>>, <<1, 0>>}, frameTimes |-> {5, 30}, suns |-> {0, 20},
       maxTicks |-> MaxTicksRow,
       mutations |-> {<<[from |-> green, to |-> red, amount |-> 1]>>},
       scatter |-> {<<0, 0>>, <<1, 0>>}] }

World ==
    [cells |-> cells, heap |-> heap, fungi |-> fungi, tiles |-> tiles,
     spores |-> spores, nextId |-> nextId, nextCell |-> nextCell]

\* the cells of w that are dead or were emptied, as they are remembered
Casualties(w) ==
    {[id |-> w.cells[i].id, key |-> Cell_getPositionKey(w.cells[i]),
      fungus |-> w.cells[i].fungus] :
        i \in {j \in 1..Len(w.cells) : ~w.cells[j].alive \/ w.cells[j].emptied}}

\* the world w becomes the state; Fungus objects nothing refers to are dropped
Commit(w) ==
    LET referenced == w.fungi \cup {w.cells[i].fungus : i \in 1..Len(w.cells)}
    IN  /\ cells' = w.cells
        /\ heap' = [id \in DOMAIN w.heap \cap referenced |-> w.heap[id]]
        /\ fungi' = w.fungi
        /\ tiles' = w.tiles
        /\ spores' = w.spores
        /\ nextId' = w.nextId
        /\ nextCell' = w.nextCell

frameVars == <<frameTime, frameSun, idx, todo>>
userVars == <<spawns, created>>

Init ==
    /\ probe = [op |-> "engine"]
    /\ env \in Environments
    /\ tiles = [p \in Grid(env.gridSize) |-> Tile_new]
    /\ cells = <<>>
    /\ heap = [id \in {} |-> 0]
    /\ fungi = {}
    /\ spores = <<>>
    /\ nextId = 0
    /\ nextCell = 0
    /\ pc = "idle"
    /\ idx = 0
    /\ todo = {}
    /\ frameTime = 0
    /\ frameSun = 0
    /\ ticks = 0
    /\ spawns = 0
    /\ created = Undefined
    /\ hist = [died |-> {}, cellCount |-> Undefined, split |-> 0]

\* the user spawns an organism: createFungus(x, y, new Dna(...))
CreateFungus ==
    /\ pc = "idle"
    /\ ticks <= MaxUserTick
    /\ spawns < MaxSpawns
    /\ \E p \in env.positions, raw \in env.dnas :
          LET r == createFungus(World, p[1], p[2], Dna_new(raw, TOTAL_POINTS), env.gridSize)
          IN  /\ Commit(r.w)
              /\ created' = [at |-> p, ret |-> r.ret]
    /\ spawns' = spawns + 1
    /\ UNCHANGED <<probe, env, pc, ticks, hist, frameVars>>

\* the user clears the garden
Clear ==
    /\ pc = "idle"
    /\ ticks <= MaxUserTick
    /\ Commit(clear(World))
    /\ UNCHANGED <<probe, env, pc, ticks, hist, frameVars, userVars>>

\* a frame begins: update(deltaTime, sunEnergyPerTile)
BeginUpdate ==
    /\ pc = "idle"
    /\ ticks < env.maxTicks
    /\ \E dt \in env.frameTimes, sun \in env.suns :
          /\ frameTime' = dt
          /\ frameSun' = sun
    /\ pc' = IF cells = <<>> THEN "sharing" ELSE "cells"
    /\ idx' = 1
    /\ hist' = [died |-> {}, cellCount |-> Undefined, split |-> 0]
    /\ UNCHANGED <<probe, env, tiles, cells, heap, fungi, spores, nextId, nextCell,
                   todo, ticks, userVars>>

\* the body of the first loop of update for the cell at idx; the mushroom of a
\* cell that is mature releases its spores with the draws of this frame
UpdateCell ==
    /\ pc = "cells"
    /\ LET cell == cells[idx]
           w1 == IF cell.alive
                 THEN acquireEnergy(World, idx, frameTime, frameSun)
                 ELSE World
           grown == Cell_growMushroom(w1.cells[idx], mushroomGrowthRate * frameTime)
           last == idx = Len(cells)
       IN  /\ IF cell.alive /\ w1.cells[idx].hasMushroom
              THEN IF Cell_isMushroomMature(grown)
                   THEN \E draws \in env.mutations,
                           landing \in [1..sporeCount -> env.scatter] :
                          LET mutatedDna == Dna_mutate(w1.heap[cell.fungus].dna, draws,
                                                       TOTAL_POINTS)
                              thrown == [k \in 1..sporeCount |->
                                            <<cell.x + landing[k][1], cell.y + landing[k][2]>>]
                          IN  Commit([w1 EXCEPT
                                  !.spores = pushSpores(@, thrown, mutatedDna, cell.fungus,
                                                        env.gridSize),
                                  !.cells[idx] = Cell_removeMushroom(grown)])
                   ELSE Commit([w1 EXCEPT !.cells[idx] = grown])
              ELSE Commit(w1)
           /\ hist' = [hist EXCEPT
                          !.died = @ \cup Casualties(World') ,
                          !.cellCount = IF cell.alive
                                        THEN Some(Fungus_getCellCount(heap[cell.fungus]))
                                        ELSE @]
           /\ pc' = IF last THEN "growth" ELSE "cells"
           /\ idx' = IF last THEN 0 ELSE idx + 1
           /\ todo' = IF last THEN {cells[i].id : i \in 1..Len(cells)} ELSE todo
    /\ UNCHANGED <<probe, env, frameTime, frameSun, ticks, userVars>>

\* the body of the second loop of update for one cell of the shuffled array:
\* the cells are taken in any order, the empty neighbour is any of them
GrowCell ==
    /\ pc = "growth"
    /\ \E id \in todo :
          LET i == IndexOf(cells, id)
              cell == cells[i]
              dna == heap[cell.fungus].dna
              expands == /\ reachesThreshold(cell, expansionEnergyCost, dna[blue])
                         /\ canExpand(World, i, env.gridSize)
          IN  /\ IF ~cell.alive THEN Commit(World)
                 ELSE IF expands
                 THEN \E pos \in getEmptyAdjacentPositions(World, cell, env.gridSize) :
                          Commit(reproduce(attemptExpansion(World, i, pos), i))
                 ELSE Commit(reproduce(World, i))
              /\ todo' = todo \ {id}
              /\ pc' = IF todo = {id} THEN "sharing" ELSE "growth"
    /\ hist' = [hist EXCEPT !.died = @ \cup Casualties(World')]
    /\ UNCHANGED <<probe, env, frameTime, frameSun, idx, ticks, userVars>>

PerformEnergySharing ==
    /\ pc = "sharing"
    /\ Commit([World EXCEPT !.cells = performEnergySharing(@, 1, frameTime)])
    /\ pc' = "spores"
    /\ hist' = [hist EXCEPT !.died = @ \cup Casualties(World')]
    /\ UNCHANGED <<probe, env, frameVars, ticks, userVars>>

UpdateSpores ==
    /\ pc = "spores"
    /\ Commit(updateSpores(World, spores, <<>>, frameTime))
    /\ pc' = "dead"
    /\ UNCHANGED <<probe, env, frameVars, ticks, userVars, hist>>

RemoveDeadCells ==
    /\ pc = "dead"
    /\ Commit(removeDeadCells(World))
    /\ pc' = "split"
    /\ UNCHANGED <<probe, env, frameVars, ticks, userVars, hist>>

\* the split pass ends update
SplitDisconnectedFungi ==
    /\ pc = "split"
    /\ Commit(splitDisconnectedFungi(World, TOTAL_POINTS))
    /\ pc' = "garden"
    /\ hist' = [hist EXCEPT !.split = nextId' - nextId]
    /\ UNCHANGED <<probe, env, frameVars, ticks, userVars>>

\* Garden.update ends the frame
GardenUpdate ==
    /\ pc = "garden"
    /\ tiles' = Garden_update(tiles, frameTime)
    /\ pc' = "idle"
    /\ ticks' = ticks + 1
    /\ UNCHANGED <<probe, env, cells, heap, fungi, spores, nextId, nextCell,
                   frameVars, userVars, hist>>

Next ==
    \/ CreateFungus
    \/ Clear
    \/ BeginUpdate
    \/ UpdateCell
    \/ GrowCell
    \/ PerformEnergySharing
    \/ UpdateSpores
    \/ RemoveDeadCells
    \/ SplitDisconnectedFungi
    \/ GardenUpdate

Spec == Init /\ [][Next]_vars

----------------------------------------------------------------------------
(* Properties of the engine *)

\* the frame is over: update has returned
TickDone == pc \in {"garden", "idle"}

CellSet == {cells[i] : i \in 1..Len(cells)}

\* two different positions next to each other, diagonals included
Touching(p, q) == p # q /\ Abs(p[1] - q[1]) <= 1 /\ Abs(p[2] - q[2]) <= 1

RECURSIVE Spread(_, _)
\* the positions of S that a chain of touching positions of S joins to R
Spread(S, R) ==
    LET more == {p \in S \ R : \E q \in R : Touching(p, q)}
    IN  IF more = {} THEN R ELSE Spread(S, R \cup more)

Components(S) == {Spread(S, {p}) : p \in S}

\* the positions of the cells in the map that reference the organism id
PositionsOf(cs, id) ==
    {Cell_getPositionKey(cs[i]) : i \in {j \in 1..Len(cs) : cs[j].fungus = id}}

\* C1: after any sequence of createFungus, update and clear, every cell
\* holds a non-negative whole number of units of each energy kind, and its
\* total over the three kinds does not exceed its capacity.
C1_WholeUnitsWithinCapacity ==
    pc = "idle" =>
        \A c \in CellSet :
            /\ \A t \in EnergyType : c.energyWallet[t] >= 0 /\ IsWhole(c.energyWallet[t])
            /\ Cell_getEnergy(c) <= c.maxEnergyCapacity

\* C2: in every state a cell is in the position map under (x, y) if and only
\* if the same cell is under (x, y) in the collection of the organism it
\* references, so the count that applyMetabolism reads is at least 1.
C2_MapMatchesCollections ==
    /\ \A c \in CellSet :
          /\ c.fungus \in DOMAIN heap
          /\ Cell_getPositionKey(c) \in DOMAIN heap[c.fungus].cells
          /\ heap[c.fungus].cells[Cell_getPositionKey(c)] = c.id
    /\ \A id \in DOMAIN heap : \A k \in DOMAIN heap[id].cells :
          \E c \in CellSet :
              /\ Cell_getPositionKey(c) = k
              /\ c.id = heap[id].cells[k]
              /\ c.fungus = id
    /\ hist.cellCount # Undefined => hist.cellCount[1] >= 1

\* metabolism has been applied in a frame in which a cell was removed from an
\* organism that keeps other cells
C2_RemovedFromLivingOrganism ==
    /\ pc = "split"
    /\ hist.cellCount # Undefined
    /\ \E d \in hist.died :
          /\ d.fungus \in fungi
          /\ d.key \notin DOMAIN heap[d.fungus].cells
          /\ Fungus_getCellCount(heap[d.fungus]) >= 1

\* C3: after every tick every cell in the position map is alive and
\* references an organism of the index, and every organism of the index has
\* at least one cell.
C3_LiveCellsOfIndexedOrganisms ==
    TickDone =>
        /\ \A c \in CellSet : c.alive /\ c.fungus \in fungi
        /\ \A id \in fungi : Fungus_getCellCount(heap[id]) >= 1

\* a tick ends in which an organism lost its last cell while another lives on
C3_OrganismDiedOut ==
    /\ pc = "garden"
    /\ fungi # {}
    /\ \E d \in hist.died : d.fungus \notin fungi

\* C4: after every tick the cells of each organism form one connected
\* component under 8-neighbourhood adjacency, also in a tick in which cells
\* died.
C4_OrganismsConnected ==
    TickDone =>
        \A id \in fungi : Cardinality(Components(PositionsOf(cells, id))) <= 1

\* a tick ends in which a cell died and the split pass made a new organism
C4_SplitAfterDeath ==
    /\ pc = "garden"
    /\ hist.died # {}
    /\ hist.split > 0

\* C34: after createFungus, update and clear, the occupancy flag of a tile
\* says occupied exactly when the position map holds a cell at the position
\* of the tile.
C34_TileFlagMatchesMap ==
    (pc = "idle" \/ TickDone) =>
        \A p \in DOMAIN tiles :
            ~tiles[p].isEmpty <=> \E c \in CellSet : Cell_getPositionKey(c) = p

\* an update ends in which a cell died and left its tile, while other cells
\* stay on theirs
C34_TileFreedByDeath ==
    /\ TickDone
    /\ cells # <<>>
    /\ \E d \in hist.died :
          /\ tiles[d.key].isEmpty
          /\ \A c \in CellSet : Cell_getPositionKey(c) # d.key

----------------------------------------------------------------------------
(* The split pass on its own: one organism whose cells lie anywhere in a   *)
(* band of the garden, as deaths can leave it when step 8 of update begins. *)

SplitColumns == 5   \* the band is SplitColumns wide, and so is the garden
\* the band is a third as high as it is wide
SplitRows == (SplitColumns + 1) \div 3

Band == {p \in Grid(SplitColumns) : p[2] < SplitRows}

RECURSIVE plant(_, _)
\* the cells of organism 0 at the positions, added to the map row by row
plant(w, positions) ==
    IF positions = {} THEN w
    ELSE LET p == CHOOSE a \in positions : \A b \in positions :
                      a[2] < b[2] \/ (a[2] = b[2] /\ a[1] <= b[1])
         IN  plant(newCell(w, p[1], p[2], 0, Whole(50)), positions \ {p})

\* an engine with nothing in it, on a garden of gridSize x gridSize tiles
emptyEngineOn(gridSize) ==
    [cells |-> <<>>, heap |-> [id \in {} |-> 0], fungi |-> {},
     tiles |-> [p \in Grid(gridSize) |-> Tile_new], spores |-> <<>>,
     nextId |-> 0, nextCell |-> 0]

emptyEngine == emptyEngineOn(SplitColumns)

InitSplit ==
    /\ env = [name |-> "band", gridSize |-> SplitColumns]
    /\ \E positions \in SUBSET Band \ {{}} :
          LET w == plant(newFungus(emptyEngine, Dna_new(DefaultDna, TOTAL_POINTS), 0),
                         positions)
          IN  /\ cells = w.cells
              /\ heap = w.heap
              /\ fungi = w.fungi
              /\ tiles = w.tiles
              /\ spores = w.spores
              /\ nextId = w.nextId
              /\ nextCell = w.nextCell
              /\ probe = [op |-> "split", cells |-> w.cells, fungi |-> w.fungi,
                          nextId |-> w.nextId]
    /\ pc = "split"
    /\ idx = 0
    /\ todo = {}
    /\ frameTime = 0
    /\ frameSun = 0
    /\ ticks = 0
    /\ spawns = 0
    /\ created = Undefined
    /\ hist = [died |-> {}, cellCount |-> Undefined, split |-> 0]

NextSplit == SplitDisconnectedFungi

SpecSplit == InitSplit /\ [][NextSplit]_vars

\* C5: when the cells of an organism form more than one 8-connected
\* component, the split pass leaves the largest component under the original
\* id, makes of every other component exactly one new organism with a fresh
\* id, the cell counts are the component sizes, and no cell is lost or added.
C5_SplitByComponent ==
    (pc = "garden" /\ Cardinality(Components(PositionsOf(probe.cells, 0))) > 1) =>
        LET components == Components(PositionsOf(probe.cells, 0))
            kept == PositionsOf(cells, 0)
        IN  /\ 0 \in fungi
            /\ kept \in components
            /\ \A K \in components : Cardinality(K) <= Cardinality(kept)
            /\ DOMAIN heap[0].cells = kept
            /\ \A K \in components \ {kept} :
                  \E id \in fungi \ probe.fungi :
                      /\ id >= probe.nextId
                      /\ DOMAIN heap[id].cells = K
                      /\ PositionsOf(cells, id) = K
                      /\ Fungus_getCellCount(heap[id]) = Cardinality(K)
            /\ Cardinality(fungi) = Cardinality(components)
            /\ Len(cells) = Len(probe.cells)
            /\ {Cell_getPositionKey(c) : c \in CellSet} = PositionsOf(probe.cells, 0)

\* components of 5 and 2 cells have become organisms of 5 and 2 cells, the
\* one of 5 under the original id
C5_FiveAndTwo ==
    /\ pc = "garden"
    /\ {Cardinality(K) : K \in Components(PositionsOf(probe.cells, 0))} = {5, 2}
    /\ Len(probe.cells) = 7
    /\ Fungus_getCellCount(heap[0]) = 5
    /\ \E id \in fungi \ {0} : Fungus_getCellCount(heap[id]) = 2

\* C6: a removal that takes the total of a cell to zero sets its liveness
\* flag to false, and at the end of the tick the dead cell is in neither the
\* position map nor an organism's collection and its tile is marked empty.
C6_EmptiedCellsDieAndLeave ==
    /\ \A c \in CellSet : c.emptied => ~c.alive
    /\ pc = "garden" =>
          \A d \in hist.died :
              /\ \A c \in CellSet : c.id # d.id
              /\ \A id \in DOMAIN heap : \A k \in DOMAIN heap[id].cells :
                    heap[id].cells[k] # d.id
              /\ tiles[d.key].isEmpty

\* a tick ends in which a removal emptied a cell of an organism that lives on
C6_EmptiedCellRemoved ==
    /\ pc = "garden"
    /\ \E d \in hist.died : d.fungus \in fungi

(***************************************************************************)
(* Dna.mutate on its own: a vector built by the constructor is mutated     *)
(* with a strength and the random draws of one call.  A trait n/7 is held  *)
(* as the double nearest to n/7; after a transfer the code holds that      *)
(* double only while the trait stays within [32, 64), so a vector with     *)
(* fractional traits is mutated with strengths whose maxChange is <= 2.    *)
(***************************************************************************)
MaxDrawTrait == 3

MutateArguments ==
    { DefaultDna, ZeroDna, SpreaderDna, ThriftyDna,
      <<TOTAL_POINTS, 0, 0, 0, 0, 0, 0>>,
      <<1, 100, 100, 100, 100, 100, 100>> }

\* mutation strengths in hundredths: 0.0, 0.01, the engine's, 1.0
StrengthChoices == {0, 1, mutationStrength, 100}

\* Math.floor(Math.random() * maxChange) + 1: the least and the greatest value
TransferAmounts(maxChange) == {1, Max(1, maxChange)}

\* the draws of numMutations = 1..3 rounds: fromIndex, toIndex # fromIndex, amount
DrawChoices(maxChange) ==
    LET round == { d \in [from : 1..MaxDrawTrait, to : 1..MaxDrawTrait,
                          amount : TransferAmounts(maxChange)] : d.from # d.to }
    IN  UNION { [1..n -> round] : n \in 1..3 }

InitMutate ==
    /\ NoEngine
    /\ \E raw \in MutateArguments, s \in StrengthChoices :
          LET v == Dna_new(raw, TOTAL_POINTS)
          IN  /\ (\A i \in Traits : IsWhole(v[i])) \/ Dna_maxChange(TOTAL_POINTS, s) <= 2
              /\ probe = [op |-> "dna", dna |-> v, T |-> TOTAL_POINTS, strength |-> s]

\* child = v.mutate(s); mutate copies the traits into an array and assigns
\* no field of v
Mutate ==
    /\ probe.op = "dna"
    /\ \E draws \in DrawChoices(Dna_maxChange(probe.T, probe.strength)) :
          probe' = [op |-> "mutated", dna |-> probe.dna, T |-> probe.T,
                    strength |-> probe.strength, draws |-> draws,
                    child |-> Dna_mutate(probe.dna, draws, probe.T)]
    /\ UNCHANGED engineVars

NextMutate == Mutate

SpecMutate == InitMutate /\ [][NextMutate]_vars

\* C13: for every trait vector v, every strength and every outcome of the
\* random draws, v.mutate(s) is a vector whose traits sum to exactly
\* TOTAL_POINTS (getTotal() === TOTAL_POINTS), and v keeps its traits.
C13_MutateKeepsTotalAndParent ==
    [][probe'.op = "mutated" =>
          /\ Dna_totalIs(probe'.child, probe'.T)
          /\ probe'.dna = probe.dna]_vars

\* three rounds of transfers have produced a child that differs from its parent
C13_ChildDiffers ==
    /\ probe.op = "mutated"
    /\ Len(probe.draws) = 3
    /\ probe.child # probe.dna
    /\ \A i \in Traits : IsWhole(probe.dna[i])

\* the traits that the k-th round of the loop of mutate finds and leaves
TraitsBefore(k) == Dna_transfers(probe.dna, SubSeq(probe.draws, 1, k - 1))
TraitsAfter(k) == Dna_transfers(probe.dna, SubSeq(probe.draws, 1, k))

\* C35: in mutate(s), each round of the loop moves at most
\* floor(TOTAL_POINTS * s) points, from one trait to a different one, makes
\* no source trait negative and raises no target trait above MAX_TRAIT_VALUE.
C35_TransfersWithinStrength ==
    probe.op = "mutated" =>
        \A k \in 1..Len(probe.draws) :
            LET d == probe.draws[k]
                moved == TraitsAfter(k)[d.to] - TraitsBefore(k)[d.to]
            IN  /\ d.from # d.to
                /\ moved <= Whole(Dna_maxChange(probe.T, probe.strength))
                /\ TraitsBefore(k)[d.from] - TraitsAfter(k)[d.from] = moved
                /\ \A t \in Traits \ {d.from, d.to} : TraitsAfter(k)[t] = TraitsBefore(k)[t]
                /\ TraitsBefore(k)[d.from] >= 0 => TraitsAfter(k)[d.from] >= 0
                /\ moved > 0 => TraitsAfter(k)[d.to] <= Whole(MAX_TRAIT_VALUE)

-----------------------------------------------------------------------------
(* The steps of update, one cell at a time *)

\* the cell at idx as applyEnergyConversion finds it in this step
BeforeConversion == absorbEnergy(World, idx, frameTime, frameSun).cells[idx].energyWallet

\* C14: in the conversion step a cell that holds Sun turns all of its Sun into
\* as much Nutrition and keeps its Soil; a cell that holds no Sun turns all
\* of its Soil into as much Nutrition.
C14_ConversionPrefersSun ==
    [][pc = "cells" /\ cells[idx].alive =>
          LET before == BeforeConversion
              after == cells'[idx].energyWallet
          IN  IF before["SUN_UNIT"] > 0
              THEN /\ after["SUN_UNIT"] = 0
                   /\ after["NUTRITION_UNIT"] = before["NUTRITION_UNIT"] + before["SUN_UNIT"]
                   /\ after["SOIL_UNIT"] = before["SOIL_UNIT"]
              ELSE /\ after["SUN_UNIT"] = 0
                   /\ after["SOIL_UNIT"] = 0
                   /\ after["NUTRITION_UNIT"] = before["NUTRITION_UNIT"] + before["SOIL_UNIT"]
    ]_vars

\* C36: the conversion step of a cell's update changes neither the total
\* energy of the cell nor its liveness: a living cell that holds only Sun, or
\* only Soil, is alive after the conversion and holds the same total as
\* Nutrition.
C36_ConversionKeepsTotalAndLife ==
    pc = "cells" /\ cells[idx].alive =>
        LET before == absorbEnergy(World, idx, frameTime, frameSun).cells[idx]
            after == applyEnergyConversion(before)
        IN  /\ Cell_getEnergy(after) = Cell_getEnergy(before)
            /\ after.alive = before.alive
            /\ (/\ before.alive
                /\ before.energyWallet["NUTRITION_UNIT"] = 0
                /\ before.energyWallet["SUN_UNIT"] = 0 \/ before.energyWallet["SOIL_UNIT"] = 0)
               => /\ after.alive
                  /\ after.energyWallet["NUTRITION_UNIT"] = Cell_getEnergy(before)

\* C24: the Soil that the soil absorption of a living cell's update takes from
\* the tile under the cell is the Soil it adds to the cell's ledger, and the
\* tile is left with no less than nothing.
C24_AbsorptionMovesSoil ==
    pc = "cells" /\ cells[idx].alive =>
        LET cell == cells[idx]
            fungusRec == heap[cell.fungus]
            tile == tiles[Cell_getPositionKey(cell)]
            c2 == applyPhotosynthesis(applyMetabolism(cell, fungusRec, frameTime),
                                      fungusRec.dna, frameTime, frameSun)
            s == applySoilAbsorption(c2, tile, fungusRec.dna, frameTime)
            taken == tile.energyWallet["SOIL_UNIT"] - s.tile.energyWallet["SOIL_UNIT"]
        IN  /\ taken = s.cell.energyWallet["SOIL_UNIT"] - c2.energyWallet["SOIL_UNIT"]
            /\ taken >= 0
            /\ s.tile.energyWallet["SOIL_UNIT"] >= 0

\* C16: in the growth pass a cell gets a new cell only if its Nutrition is at
\* least 1.2 times the cost debited for it, Math.floor(expansionEnergyCost *
\* (1 - 0.8 * blue / 100)).
C16_ExpandsOnlyAboveThreshold ==
    [][pc = "growth" /\ Len(cells') > Len(cells) =>
          \A id \in todo \ todo' :
              LET cell == cells[IndexOf(cells, id)]
                  cost == actualCost(expansionEnergyCost, heap[cell.fungus].dna[blue])
              IN  cell.energyWallet["NUTRITION_UNIT"] * 10 >= 12 * Whole(cost)
    ]_vars

\* C19: createFungus at a position outside the grid or on a tile that is not
\* empty returns null and changes nothing: no organism, cell or spore is added
\* and no tile changes.
C19_RefusedCreateChangesNothing ==
    [][/\ pc = "idle" /\ spawns' = spawns + 1
       /\ \/ created'.at \notin Grid(env.gridSize)
          \/ ~tiles[created'.at].isEmpty
       => /\ created'.ret = Undefined
          /\ UNCHANGED <<cells, heap, fungi, tiles, spores, nextId, nextCell>>
    ]_vars

\* createFungus has returned null for a tile that holds a cell
C19_RefusedOnOccupiedTile ==
    /\ created # Undefined
    /\ created.ret = Undefined
    /\ created.at \in Grid(env.gridSize)
    /\ IndexAt(cells, created.at[1], created.at[2]) # 0

(***************************************************************************)
(* applyParasitism on its own: a parasite cell with red = 100 in the       *)
(* middle of its eight neighbouring tiles, each empty or holding a cell of *)
(* another organism or of the parasite's, and one cell of another organism *)
(* two tiles away.  Frames of quarters of a second follow each other and   *)
(* nothing else acts on the cells.                                         *)
(***************************************************************************)
TimeDen == 4
MaxParasiteFrames == 3

\* new Dna(50, 100, 0, 0, 0, 100, 0) and new Dna()
ParasiteDna == Dna_new(<<50, 100, 0, 0, 0, 100, 0>>, TOTAL_POINTS)
VictimDna == Dna_new(DefaultDna, TOTAL_POINTS)

\* the Nutrition a neighbour starts with: the seed of createFungus, or too little
VictimEnergy == {50, 5}

\* cells[1] is the parasite at <<1, 1>>, holding held units, then the far cell,
\* then the neighbours
ParasiteCells(layout, energy, held) ==
    LET RECURSIVE place(_, _)
        place(cs, k) ==
            IF k > Len(AdjacentOffsets) THEN cs
            ELSE IF layout[k] = "none" THEN place(cs, k + 1)
            ELSE place(Append(cs, Cell_new(Len(cs), 1 + AdjacentOffsets[k][1],
                                           1 + AdjacentOffsets[k][2],
                                           IF layout[k] = "own" THEN 0 ELSE 1,
                                           IF layout[k] = "own" THEN ParasiteDna
                                                                ELSE VictimDna,
                                           Whole(energy))),
                       k + 1)
    IN  place(<< Cell_new(0, 1, 1, 0, ParasiteDna, Whole(held)),
                 Cell_new(1, 3, 1, 1, VictimDna, Whole(energy)) >>, 1)

InitParasitism ==
    /\ NoEngine
    /\ \E layout \in [1..Len(AdjacentOffsets) -> {"none", "other", "own"}],
          energy \in VictimEnergy, held \in {50, 299} :
          probe = [op |-> "parasitism", start |-> ParasiteCells(layout, energy, held),
                   cells |-> ParasiteCells(layout, energy, held), elapsed |-> 0, frames |-> 0]

\* applyParasitism(parasite, time / TimeDen)
ApplyParasitism ==
    /\ probe.op = "parasitism"
    /\ probe.frames < MaxParasiteFrames
    /\ \E time \in 1..(TimeDen - 1) :
          probe' = [probe EXCEPT
                       !.cells = applyParasitismOver(@, 1, ParasiteDna, time, TimeDen),
                       !.elapsed = @ + time,
                       !.frames = @ + 1]
    /\ UNCHANGED engineVars

NextParasitism == ApplyParasitism

SpecParasitism == InitParasitism /\ [][NextParasitism]_vars

\* the neighbours of the parasite that belong to another organism
Victims == { j \in 2..Len(probe.cells) :
               /\ probe.start[j].fungus # probe.start[1].fungus
               /\ Abs(probe.start[j].x - 1) <= 1 /\ Abs(probe.start[j].y - 1) <= 1 }

RECURSIVE NutritionRemoved(_)
\* the Nutrition the cells of S have lost since the start, in sevenths of a unit
NutritionRemoved(S) ==
    IF S = {} THEN 0
    ELSE LET j == CHOOSE j \in S : TRUE
         IN  probe.start[j].energyWallet["NUTRITION_UNIT"]
             - probe.cells[j].energyWallet["NUTRITION_UNIT"]
             + NutritionRemoved(S \ {j})

\* C15: while every neighbour of another organism holds Nutrition, a cell with
\* red = 100 has removed from its k such neighbours, in aggregate, within 1
\* unit of k * maxParasitismRate * elapsed time; the cells of its own organism
\* and the cells that are not adjacent keep what they had.
C15_DrainsEachEnemyNeighbor ==
    probe.op = "parasitism" /\ (\A j \in Victims : probe.cells[j].energyWallet["NUTRITION_UNIT"] > 0) =>
        /\ Abs(NutritionRemoved(Victims) * TimeDen
               - FP * Cardinality(Victims) * maxParasitismRate * probe.elapsed) <= FP * TimeDen
        /\ \A j \in 2..Len(probe.cells) :
               j \notin Victims => probe.cells[j].energyWallet = probe.start[j].energyWallet

\* three victims among them a diagonal one, a relative next to the parasite,
\* and an elapsed time for which the aggregate is not a whole number of units
C15_ThreeVictimsFractional ==
    /\ probe.op = "parasitism"
    /\ probe.frames = MaxParasiteFrames
    /\ Cardinality(Victims) = 3
    /\ \E j \in Victims : probe.start[j].x # 1 /\ probe.start[j].y # 1
    /\ \E j \in 2..Len(probe.cells) : probe.start[j].fungus = 0
    /\ \A j \in Victims : probe.cells[j].energyWallet["NUTRITION_UNIT"] > 0
    /\ (Cardinality(Victims) * maxParasitismRate * probe.elapsed) % TimeDen # 0
    /\ NutritionRemoved(Victims) > 0

\* C22: while every neighbour of another organism holds Nutrition, each single
\* one of them has lost within 1 unit of maxParasitismRate * elapsed time to
\* the cell with red = 100.
C22_EachVictimAtRate ==
    probe.op = "parasitism" /\ (\A j \in Victims : probe.cells[j].energyWallet["NUTRITION_UNIT"] > 0) =>
        \A j \in Victims :
           Abs(NutritionRemoved({j}) * TimeDen - FP * maxParasitismRate * probe.elapsed)
               <= FP * TimeDen

\* C23: the Nutrition the parasite has gained equals the Nutrition its
\* neighbours have lost to it.
C23_DrainConservesNutrition ==
    probe.op = "parasitism" =>
        probe.cells[1].energyWallet["NUTRITION_UNIT"]
            - probe.start[1].energyWallet["NUTRITION_UNIT"]
        = NutritionRemoved(2..Len(probe.cells))

(***************************************************************************)
(* Step 6 of update on its own: updateSpores on a garden of 2 x 2 tiles,   *)
(* any of them holding a cell of organism 0, with up to MaxSpores spores   *)
(* in the collection, fresh or about to expire, thrown on any tiles.       *)
(***************************************************************************)
MaxSpores == 2

SporeGarden == Grid(2)

\* spore.dna, a vector that differs from the one of organism 0
SporeDna == Dna_new(ThriftyDna, TOTAL_POINTS)

\* the lifetime a spore is released with, and one that the next frame uses up
LifetimeChoices == {sporeLifetime, 2}

SporeChoices == [x : 0..1, y : 0..1, dna : {SporeDna}, lifetime : LifetimeChoices,
                 parentFungusId : {0}]

InitSpores ==
    /\ env = [name |-> "spores", gridSize |-> 2]
    /\ \E positions \in SUBSET SporeGarden, n \in 1..MaxSpores :
       \E list \in [1..n -> SporeChoices], dt \in {2, 5} :
          LET w == plant(newFungus(emptyEngineOn(2), Dna_new(DefaultDna, TOTAL_POINTS), 0),
                         positions)
          IN  /\ cells = w.cells
              /\ heap = w.heap
              /\ fungi = w.fungi
              /\ tiles = w.tiles
              /\ spores = list
              /\ nextId = w.nextId
              /\ nextCell = w.nextCell
              /\ frameTime = dt
              /\ probe = [op |-> "spores", cells |-> w.cells, fungi |-> w.fungi,
                          spores |-> list]
    /\ pc = "spores"
    /\ idx = 0
    /\ todo = {}
    /\ frameSun = 0
    /\ ticks = 0
    /\ spawns = 0
    /\ created = Undefined
    /\ hist = [died |-> {}, cellCount |-> Undefined, split |-> 0]

NextSpores == UpdateSpores

SpecSpores == InitSpores /\ [][NextSpores]_vars

\* C17: in the spore step a spore whose position holds a cell leaves the spore
\* collection in that tick, whatever lifetime it has left.
C17_SporeOnCellRemoved ==
    [][pc = "spores" =>
          \A k \in 1..Len(spores) :
              IndexAt(cells, spores[k].x, spores[k].y) # 0 =>
                  \A m \in 1..Len(spores') :
                      <<spores'[m].x, spores'[m].y>> # <<spores[k].x, spores[k].y>>
    ]_vars

\* spore.lifetime after the decrement, for the k-th spore of the collection
LifetimeLeft(k) == probe.spores[k].lifetime - frameTime

SporePosition(k) == <<probe.spores[k].x, probe.spores[k].y>>

\* the k-th spore has lifetime left and finds no cell when its turn comes:
\* none from before, none of a spore visited earlier
FindsNoCell(k) ==
    /\ LifetimeLeft(k) > 0
    /\ IndexAt(probe.cells, probe.spores[k].x, probe.spores[k].y) = 0
    /\ \A m \in 1..(k - 1) : ~(SporePosition(m) = SporePosition(k) /\ LifetimeLeft(m) > 0)

\* C18: a spore with lifetime left after the decrement whose position holds
\* no cell germinates in that tick: it leaves the collection, and exactly one
\* new organism with exactly one cell, at the spore's position, with the
\* spore's Dna and 50 units of Nutrition, is created.  No position ever holds
\* two cells, also when several spores lie on the same position.
C18_SporeGerminatesOnFreeTile ==
    probe.op = "spores" /\ pc = "dead" =>
        LET sprouted == {k \in 1..Len(probe.spores) : FindsNoCell(k)}
        IN  /\ \A k \in sprouted :
                   LET i == IndexAt(cells, probe.spores[k].x, probe.spores[k].y)
                   IN  /\ i # 0
                       /\ cells[i].fungus \in fungi \ probe.fungi
                       /\ heap[cells[i].fungus].dna = probe.spores[k].dna
                       /\ Fungus_getCellCount(heap[cells[i].fungus]) = 1
                       /\ cells[i].alive
                       /\ cells[i].energyWallet =
                              [createEmpty EXCEPT !["NUTRITION_UNIT"] = Whole(50)]
            /\ Cardinality(fungi \ probe.fungi) = Cardinality(sprouted)
            /\ Len(cells) = Len(probe.cells) + Cardinality(sprouted)
            /\ SubSeq(cells, 1, Len(probe.cells)) = probe.cells
            /\ \A p \in SporeGarden :
                   /\ Cardinality({i \in 1..Len(cells) : Cell_getPositionKey(cells[i]) = p}) <= 1
                   /\ Cardinality({m \in 1..Len(spores) : <<spores[m].x, spores[m].y>> = p})
                      = Cardinality({k \in 1..Len(probe.spores) :
                                        SporePosition(k) = p /\ LifetimeLeft(k) > 0})
                        - Cardinality({k \in sprouted : SporePosition(k) = p})

\* two spores with lifetime left lay on the same free tile of a garden that
\* held a cell already: one cell has been added
C18_TwoSporesOneTile ==
    /\ probe.op = "spores" /\ pc = "dead"
    /\ \E k, m \in 1..Len(probe.spores) :
          /\ m < k /\ FindsNoCell(m)
          /\ SporePosition(m) = SporePosition(k) /\ LifetimeLeft(k) > 0
    /\ Len(cells) = Len(probe.cells) + 1
    /\ Len(probe.cells) >= 1

(***************************************************************************)
(* The calls of the user on their own: clear and createFungus on a garden  *)
(* of 2 x 2 tiles between two frames, any of the tiles holding a cell and  *)
(* up to MaxSpores spores waiting in the collection.                       *)
(***************************************************************************)
InitClear ==
    /\ env = [name |-> "cleared", gridSize |-> 2, dnas |-> {DefaultDna},
              positions |-> {<<0, 0>>, <<1, 1>>, <<2, 0>>}]
    /\ \E positions \in SUBSET SporeGarden, n \in 0..MaxSpores :
       \E list \in [1..n -> {s \in SporeChoices : s.lifetime = sporeLifetime}] :
          LET w == plant(newFungus(emptyEngineOn(2), Dna_new(DefaultDna, TOTAL_POINTS), 0),
                         positions)
          IN  /\ cells = w.cells
              /\ heap = [id \in {i \in DOMAIN w.heap : positions # {}} |-> w.heap[id]]
              /\ fungi = {id \in w.fungi : positions # {}}
              /\ tiles = w.tiles
              /\ spores = list
              /\ nextId = w.nextId
              /\ nextCell = w.nextCell
              /\ probe = [op |-> "clear", cells |-> w.cells, spores |-> list]
    /\ pc = "idle"
    /\ idx = 0
    /\ todo = {}
    /\ frameTime = 0
    /\ frameSun = 0
    /\ ticks = 0
    /\ spawns = 0
    /\ created = Undefined
    /\ hist = [died |-> {}, cellCount |-> Undefined, split |-> 0]

NextClear == Clear \/ CreateFungus

SpecClear == InitClear /\ [][NextClear]_vars

\* C20: after clear(), in whatever state it is called, the engine has no
\* cells, no organisms and no spores and every tile is marked empty, and
\* createFungus on any position of the grid returns an organism.
C20_ClearEmptiesEngine ==
    [][pc = "idle" /\ pc' = "idle" /\ spawns' = spawns =>
          LET after == [cells |-> cells', heap |-> heap', fungi |-> fungi',
                        tiles |-> tiles', spores |-> spores', nextId |-> nextId',
                        nextCell |-> nextCell']
          IN  /\ cells' = <<>>
              /\ fungi' = {}
              /\ spores' = <<>>
              /\ \A p \in Grid(env.gridSize) :
                     /\ tiles'[p].isEmpty
                     /\ createFungus(after, p[1], p[2], Dna_new(DefaultDna, TOTAL_POINTS),
                                     env.gridSize).ret # Undefined
    ]_vars

\* clear() has been called on an engine that held cells and spores
C20_ClearedCellsAndSpores ==
    /\ probe.op = "clear"
    /\ Len(probe.cells) >= 2
    /\ probe.spores # <<>>
    /\ cells = <<>>
    /\ spores = <<>>
    /\ spawns = 0

----------------------------------------------------------------------------
(* Mushrooms (Cell.startMushroom .. removeMushroom, updateMushroom).  The   *)
(* first loop of update is run over a garden of 2 x 2 tiles whose cells    *)
(* hold mushrooms at every progress that frames of 2 and 5 seconds lead    *)
(* to: 0.15 a second gives 0.3 and 0.75 a frame.                           *)

InitMushroom ==
    /\ env = [name |-> "mushroom", gridSize |-> 2,
              mutations |-> {<<[from |-> green, to |-> red, amount |-> 1]>>},
              scatter |-> {<<0, 0>>, <<1, 0>>}]
    /\ \E positions \in SUBSET Grid(2) \ {{}}, dt \in {2, 5} :
          LET w == plant(newFungus(emptyEngineOn(2), Dna_new(DefaultDna, TOTAL_POINTS), 0),
                         positions)
          IN  /\ Len(w.cells) <= 2
              /\ \E progress \in [1..Len(w.cells) -> {-1, 0, 30, 60, 75, 90}] :
                    /\ cells = [i \in 1..Len(w.cells) |->
                                  IF progress[i] < 0 THEN w.cells[i]
                                  ELSE [w.cells[i] EXCEPT !.hasMushroom = TRUE,
                                                          !.mushroomGrowth = progress[i]]]
                    /\ probe = [op |-> "mushroom", progress |-> progress]
              /\ heap = w.heap
              /\ fungi = w.fungi
              /\ tiles = w.tiles
              /\ spores = <<>>
              /\ nextId = w.nextId
              /\ nextCell = w.nextCell
              /\ frameTime = dt
    /\ pc = "cells"
    /\ idx = 1
    /\ todo = {}
    /\ frameSun = 20
    /\ ticks = 0
    /\ spawns = 0
    /\ created = Undefined
    /\ hist = [died |-> {}, cellCount |-> Undefined, split |-> 0]

NextMushroom == UpdateCell

SpecMushroom == InitMushroom /\ [][NextMushroom]_vars

\* C21: a cell without a mushroom has progress 0, the progress of a cell with
\* one lies in [0, 1] (0..100 hundredths), and no cell is left with a mature
\* mushroom: the step that brings the progress to 1 releases the spores and
\* resets the flag and the progress.
C21_MushroomProgress ==
    \A i \in 1..Len(cells) :
       /\ ~cells[i].hasMushroom => cells[i].mushroomGrowth = 0
       /\ cells[i].mushroomGrowth \in 0..100
       /\ ~(cells[i].hasMushroom /\ cells[i].mushroomGrowth >= 100)

\* the first loop has grown one mushroom some of the way and brought another
\* to maturity, whose spores are in the collection
C21_GrownAndReleased ==
    /\ probe.op = "mushroom"
    /\ pc = "growth"
    /\ spores # <<>>
    /\ \E i, j \in 1..Len(cells) :
          /\ probe.progress[i] = 90
          /\ ~cells[i].hasMushroom
          /\ probe.progress[j] = 30
          /\ cells[j].hasMushroom
          /\ cells[j].mushroomGrowth > 30

----------------------------------------------------------------------------
(* Step 5 of update on its own: the loop of performEnergySharing, one cell *)
(* at a time, over four cells of one or two organisms.  The first three    *)
(* touch each other, the second and third also diagonally; the fourth      *)
(* touches none.  A cell is dead, starving, in between, more than half     *)
(* full with its energy held as Nutrition or mostly as Soil, or filled to  *)
(* its capacity.                                                           *)

SharingPositions == << <<0, 0>>, <<1, 0>>, <<0, 1>>, <<3, 0>> >>

\* energyWallet of a cell of capacity 1326: [Soil, Nutrition] in units
SharingWallets == { <<0, 0>>, <<0, 50>>, <<0, 300>>, <<0, 700>>, <<680, 20>>, <<0, 1326>> }

SharingCell(k, fungusId, held) ==
    LET cell == Cell_new(k - 1, SharingPositions[k][1], SharingPositions[k][2], fungusId,
                         Dna_new(DefaultDna, TOTAL_POINTS), Whole(held[2]))
    IN  IF held = <<0, 0>> THEN Cell_die(cell)
        ELSE [cell EXCEPT !.energyWallet["SOIL_UNIT"] = Whole(held[1])]

InitSharing ==
    /\ NoEngine
    /\ \E owner \in [1..Len(SharingPositions) -> {0, 1}],
          held \in [1..Len(SharingPositions) -> SharingWallets], deltaTime \in {1, 2} :
          /\ owner[1] = 0
          /\ probe = [op |-> "sharing",
                      cells |-> [k \in 1..Len(SharingPositions) |->
                                    SharingCell(k, owner[k], held[k])],
                      before |-> <<>>, i |-> 1, deltaTime |-> deltaTime]

\* the body of the loop of performEnergySharing for the next cell of the map
ShareEnergy ==
    /\ probe.op = "sharing"
    /\ probe.i <= Len(probe.cells)
    /\ probe' = [probe EXCEPT !.cells = shareEnergy(@, probe.i, probe.deltaTime),
                              !.before = probe.cells,
                              !.i = @ + 1]
    /\ UNCHANGED engineVars

NextSharing == ShareEnergy

SpecSharing == InitSharing /\ [][NextSharing]_vars

RECURSIVE TotalEnergy(_)
\* the sum of getEnergy() over the cells
TotalEnergy(cs) ==
    IF cs = <<>> THEN 0 ELSE Cell_getEnergy(Head(cs)) + TotalEnergy(Tail(cs))

\* C25: every pass of the loop of energy sharing leaves the sum of the energy
\* of all cells as it was.
C25_SharingConservesEnergy ==
    probe.op = "sharing" /\ probe.before # <<>> =>
        TotalEnergy(probe.cells) = TotalEnergy(probe.before)

C39_PushMovesNothing ==
    probe.op = "sharing" =>
        /\ \A j \in 1..Len(probe.cells) : Cell_isFull(probe.cells[j]) = 0
        /\ probe.before # <<>> =>
              LET i == probe.i - 1
                  cell == probe.before[i]
              IN  /\ Cell_getEnergy(probe.cells[i]) >= Cell_getEnergy(cell)
                  /\ \A j \in 1..Len(probe.cells) :
                        j # i => Cell_getEnergy(probe.cells[j]) <= Cell_getEnergy(probe.before[j])
                  /\ probe.cells # probe.before =>
                        10 * Cell_getEnergy(cell) < 2 * cell.maxEnergyCapacity

\* the pass of a living cell filled to its capacity, which touches a living
\* cell of its organism with room to spare, has moved nothing
C39_FullCellKeepsItsEnergy ==
    /\ probe.op = "sharing"
    /\ probe.before # <<>>
    /\ LET cell == probe.before[probe.i - 1]
       IN  /\ cell.alive
           /\ Cell_getEnergy(cell) = cell.maxEnergyCapacity
           /\ \E j \in 1..Len(probe.before) :
                 /\ Touching(<<probe.before[j].x, probe.before[j].y>>, <<cell.x, cell.y>>)
                 /\ probe.before[j].fungus = cell.fungus
                 /\ probe.before[j].alive
                 /\ Cell_getEnergyDeficit(probe.before[j]) > Whole(1000)
    /\ probe.cells = probe.before

----------------------------------------------------------------------------
(* Step 4 of update on its own: the second loop of update over a garden of *)
(* 2 x 2 tiles with one to three cells of two organisms, new Dna() and     *)
(* new Dna(35, 10, 35, 100, 35, 16, 19).  Expansion costs them 278 and 348 *)
(* Nutrition and is tried from 297.6 and 403.2 units of energy; a mushroom *)
(* costs 348 and 424 and is tried from 372 and 486.                        *)

\* [Soil, Nutrition] of a cell: dead, the seed, below and above the thresholds,
\* and above them with too little Nutrition
GrowthWallets == { <<0, 0>>, <<0, 50>>, <<0, 280>>, <<0, 300>>, <<0, 700>>, <<400, 100>> }

RECURSIVE sow(_, _, _, _, _)
\* the cells at positions, row by row: owner, held and armed give each cell's
\* organism, wallet and mushroom
sow(w, positions, owner, held, armed) ==
    IF positions = {} THEN w
    ELSE LET p == CHOOSE a \in positions : \A b \in positions :
                      a[2] < b[2] \/ (a[2] = b[2] /\ a[1] <= b[1])
             k == Len(w.cells) + 1
             w1 == newCell(w, p[1], p[2], owner[k], Whole(held[k][2]))
             cell == [w1.cells[k] EXCEPT !.energyWallet["SOIL_UNIT"] = Whole(held[k][1]),
                                         !.hasMushroom = armed[k],
                                         !.mushroomGrowth = IF armed[k] THEN 30 ELSE 0]
         IN  sow([w1 EXCEPT !.cells[k] = IF held[k] = <<0, 0>> THEN Cell_die(cell) ELSE cell],
                 positions \ {p}, owner, held, armed)

InitGrowth ==
    /\ env = [name |-> "growth", gridSize |-> 2]
    /\ \E positions \in SUBSET Grid(2) \ {{}} :
       \E owner \in [1..Cardinality(positions) -> {0, 1}],
          held \in [1..Cardinality(positions) -> GrowthWallets],
          armed \in [1..Cardinality(positions) -> BOOLEAN] :
          LET w0 == newFungus(newFungus(emptyEngineOn(2), Dna_new(DefaultDna, TOTAL_POINTS), 0),
                              Dna_new(ThriftyDna, TOTAL_POINTS), 0)
              w == sow(w0, positions, owner, held, armed)
              owners == {owner[k] : k \in 1..Cardinality(positions)}
          IN  /\ Cardinality(positions) <= 3
              /\ \A k \in 2..Cardinality(positions) :
                    held[k] \in {<<0, 0>>, <<0, 50>>, <<0, 700>>, <<400, 100>>} /\ ~armed[k]
              /\ cells = w.cells
              /\ heap = [id \in owners |-> w.heap[id]]
              /\ fungi = owners
              /\ tiles = w.tiles
              /\ spores = <<>>
              /\ nextId = w.nextId
              /\ nextCell = w.nextCell
              /\ frameTime = 2
              /\ todo = {w.cells[k].id : k \in 1..Len(w.cells)}
              /\ probe = [op |-> "growth", cells |-> w.cells]
    /\ pc = "growth"
    /\ idx = 0
    /\ frameSun = 20
    /\ ticks = 0
    /\ spawns = 0
    /\ created = Undefined
    /\ hist = [died |-> {}, cellCount |-> Undefined, split |-> 0]

NextGrowth == GrowCell

SpecGrowth == InitGrowth /\ [][NextGrowth]_vars

\* the cell whose turn a step of the second loop is
Grower == cells[IndexOf(cells, CHOOSE id \in todo : id \notin todo')]

\* the Nutrition that attemptExpansion and attemptReproduction debit
ExpansionCost(cell) == Whole(actualCost(expansionEnergyCost, heap[cell.fungus].dna[blue]))
MushroomCost(cell) == Whole(actualCost(mushroomEnergyCost, heap[cell.fungus].dna[purple]))

\* C27: a turn of the second loop that adds a cell adds exactly one, on a
\* position of the grid next to the parent in a row or column where no cell
\* was, of the parent's organism, holding floor(cost / 2) Nutrition; the tile
\* there turns occupied; the parent pays the cost (and that of a mushroom, if
\* it arms one in the same turn), and the other cells are as they were.
C27_ExpansionAddsOneCell ==
    [][pc = "growth" /\ Len(cells') > Len(cells) =>
          LET parent == Grower
              i == IndexOf(cells, parent.id)
              new == cells'[Len(cells')]
              pos == <<new.x, new.y>>
              armed == ~parent.hasMushroom /\ cells'[i].hasMushroom
          IN  /\ Len(cells') = Len(cells) + 1
              /\ pos \in Grid(env.gridSize)
              /\ Abs(new.x - parent.x) + Abs(new.y - parent.y) = 1
              /\ IndexAt(cells, new.x, new.y) = 0
              /\ new.fungus = parent.fungus
              /\ new.alive
              /\ new.energyWallet =
                    [createEmpty EXCEPT !["NUTRITION_UNIT"] = Floor(ExpansionCost(parent) \div 2)]
              /\ tiles[pos].isEmpty /\ ~tiles'[pos].isEmpty
              /\ cells'[i].energyWallet =
                    [parent.energyWallet EXCEPT !["NUTRITION_UNIT"] =
                        @ - ExpansionCost(parent) - (IF armed THEN MushroomCost(parent) ELSE 0)]
              /\ \A j \in 1..Len(cells) : j # i => cells'[j] = cells[j]
    ]_vars

\* cells of both organisms have expanded, one of them into the only free tile
C27_BothOrganismsExpanded ==
    /\ probe.op = "growth"
    /\ Len(cells) = 4
    /\ Len(probe.cells) = 2
    /\ cells[3].fungus # cells[4].fungus

\* C28: in a turn of the second loop, an expansion that is tried (the energy
\* reaches the threshold) by a cell with less Nutrition than the cost, or with
\* no free tile of the grid beside it, adds no cell and changes no tile and
\* no ledger; a reproduction that is tried by a cell with less Nutrition than
\* the mushroom's cost leaves the cell as the expansion left it, unarmed.
C28_FailedAttemptsChangeNothing ==
    [][pc = "growth" =>
          LET cell == Grower
              i == IndexOf(cells, cell.id)
              dna == heap[cell.fungus].dna
              triesExpansion == cell.alive /\ reachesThreshold(cell, expansionEnergyCost, dna[blue])
              expansionFails ==
                  /\ triesExpansion
                  /\ \/ cell.energyWallet["NUTRITION_UNIT"] < ExpansionCost(cell)
                     \/ getEmptyAdjacentPositions(World, cell, env.gridSize) = {}
              mid == IF triesExpansion /\ ~expansionFails
                     THEN Cell_removeEnergy(cell, ExpansionCost(cell), "NUTRITION_UNIT").cell
                     ELSE cell
              triesReproduction ==
                  /\ cell.alive
                  /\ ~mid.hasMushroom
                  /\ reachesThreshold(mid, mushroomEnergyCost, dna[purple])
              reproductionFails ==
                  triesReproduction /\ mid.energyWallet["NUTRITION_UNIT"] < MushroomCost(cell)
          IN  /\ expansionFails =>
                    /\ Len(cells') = Len(cells)
                    /\ tiles' = tiles
                    /\ \A j \in 1..Len(cells) : j # i => cells'[j] = cells[j]
                    /\ ~triesReproduction \/ reproductionFails => cells' = cells
              /\ reproductionFails => cells'[i] = mid
    ]_vars

\* the loop is over and nothing has changed: the cell in the corner has the
\* Nutrition to expand and no free tile beside it, and its neighbour has the
\* energy to try both and the Nutrition for neither
C28_BoxedInAndShortOfNutrition ==
    /\ probe.op = "growth"
    /\ pc = "sharing"
    /\ Len(cells) = 3
    /\ cells = probe.cells
    /\ IndexAt(cells, 1, 1) = 0
    /\ cells[1].energyWallet["NUTRITION_UNIT"] = Whole(700)
    /\ cells[1].hasMushroom
    /\ cells[2].energyWallet["SOIL_UNIT"] = Whole(400)
    /\ ~cells[2].hasMushroom

\* C29: a turn of the second loop arms a mushroom only on a living cell that
\* had none and whose Nutrition, when attemptReproduction is called, is at
\* least 1.2 times the cost Math.floor(mushroomEnergyCost * (1 - 0.8 * purple
\* / 100)); the arming debits that cost and the progress starts at 0.
C29_ArmsOnlyAboveThreshold ==
    [][pc = "growth" /\ ~Grower.hasMushroom
            /\ cells'[IndexOf(cells, Grower.id)].hasMushroom =>
          LET cell == Grower
              i == IndexOf(cells, cell.id)
              mid == IF Len(cells') > Len(cells)
                     THEN Cell_removeEnergy(cell, ExpansionCost(cell), "NUTRITION_UNIT").cell
                     ELSE cell
          IN  /\ cell.alive
              /\ mid.energyWallet["NUTRITION_UNIT"] * 10 >= 12 * MushroomCost(cell)
              /\ cells'[i].energyWallet =
                    [mid.energyWallet EXCEPT !["NUTRITION_UNIT"] = @ - MushroomCost(cell)]
              /\ cells'[i].mushroomGrowth = 0
    ]_vars

\* C38: a turn of the second loop in which the cell expands or arms a
\* mushroom does not kill it: after each debit the cell is alive and holds at
\* least 0.2 times the cost it has paid as Nutrition.
C38_GrowthLeavesReserve ==
    [][pc = "growth" =>
          LET cell == Grower
              i == IndexOf(cells, cell.id)
              expanded == Len(cells') > Len(cells)
              armed == ~cell.hasMushroom /\ cells'[i].hasMushroom
              mid == IF expanded
                     THEN Cell_removeEnergy(cell, ExpansionCost(cell), "NUTRITION_UNIT").cell
                     ELSE cell
          IN  /\ expanded =>
                    /\ mid.alive
                    /\ 5 * mid.energyWallet["NUTRITION_UNIT"] >= ExpansionCost(cell)
              /\ armed =>
                    /\ cells'[i].alive
                    /\ 5 * cells'[i].energyWallet["NUTRITION_UNIT"] >= MushroomCost(cell)
              /\ expanded \/ armed => cells'[i].alive
    ]_vars

----------------------------------------------------------------------------
(* The life of spores over several frames: step 6 of one frame after       *)
(* another, with frames of 2 and 5 seconds, on a garden of 2 x 2 tiles     *)
(* that holds no mushroom, so that no spores are added; between two        *)
(* frames a cell may die and be removed by step 7.  The game loop calls    *)
(* update on every animation frame, which is the fairness of               *)
(* SpecSporeFrames.                                                        *)

MaxTicksSpores == 5     \* frames: a fresh spore lives through 5 frames of 2 s

\* cells in the first row, spores on the tiles <<0, 0>> and <<1, 1>>
InitSporeFrames ==
    /\ InitSpores
    /\ \A i \in 1..Len(cells) : cells[i].y = 0
    /\ \A k \in 1..Len(spores) : spores[k].x = spores[k].y

\* step 6 of the next frame
SporeFrame ==
    /\ pc = "spores"
    /\ ticks < MaxTicksSpores
    /\ \E dt \in {2, 5} :
          /\ frameTime' = dt
          /\ \E w \in {updateSpores(World, spores, <<>>, dt)} : Commit(w)
    /\ ticks' = ticks + 1
    /\ UNCHANGED <<probe, env, pc, frameSun, idx, todo, userVars, hist>>

\* a cell runs out of energy in a frame, and step 7 removes it
CellDies ==
    /\ pc = "spores"
    /\ ticks < MaxTicksSpores
    /\ \E i \in 1..Len(cells) :
          Commit(removeDeadCells([World EXCEPT !.cells[i] = Cell_die(@)]))
    /\ UNCHANGED <<probe, env, pc, frameVars, ticks, userVars, hist>>

NextSporeFrames == SporeFrame \/ CellDies

SpecSporeFrames == InitSporeFrames /\ [][NextSporeFrames]_vars /\ WF_vars(SporeFrame)

----------------------------------------------------------------------------
(* The split pass on cells as a run leaves them: an organism of a later     *)
(* generation whose cells lie in a row, with Soil not yet converted, with   *)
(* mushrooms, some filled to their capacity, and Dna.TOTAL_POINTS as the    *)
(* settings panel has left it when step 8 of update begins.                 *)

RehomeColumns == 4
RehomeRow == {p \in Grid(RehomeColumns) : p[2] = 0}
\* [Soil, Nutrition] of a cell: the seed of createFungus, or Soil absorbed since
RehomeWallets == { <<0, 50>>, <<30, 20>> }

InitRehome ==
    /\ env = [name |-> "rehome", gridSize |-> RehomeColumns]
    /\ \E raw \in {DefaultDna, ZeroDna}, T \in TotalPointsChoices,
          positions \in SUBSET RehomeRow \ {{}} :
       \E held \in [1..Cardinality(positions) -> RehomeWallets],
          armed \in [1..Cardinality(positions) -> BOOLEAN],
          full \in [1..Cardinality(positions) -> BOOLEAN] :
          LET w0 == newFungus(emptyEngineOn(RehomeColumns), Dna_new(raw, TOTAL_POINTS), 1)
              w1 == sow(w0, positions, [k \in 1..Cardinality(positions) |-> 0], held, armed)
              \* a full cell has absorbed Soil until addEnergyFromSource left no room
              filled == [k \in 1..Len(w1.cells) |->
                            IF full[k]
                            THEN [w1.cells[k] EXCEPT !.energyWallet["SOIL_UNIT"] =
                                     w1.cells[k].maxEnergyCapacity
                                     - w1.cells[k].energyWallet["NUTRITION_UNIT"]]
                            ELSE w1.cells[k]]
          IN  /\ Cardinality(positions) <= 3
              /\ cells = filled
              /\ heap = w1.heap
              /\ fungi = w1.fungi
              /\ tiles = w1.tiles
              /\ spores = <<>>
              /\ nextId = w1.nextId
              /\ nextCell = w1.nextCell
              /\ probe = [op |-> "rehome", cells |-> filled, fungi |-> w1.fungi,
                          dna |-> w1.heap[0].dna, generation |-> 1, T |-> T]
    /\ pc = "split"
    /\ idx = 0
    /\ todo = {}
    /\ frameTime = 0
    /\ frameSun = 0
    /\ ticks = 0
    /\ spawns = 0
    /\ created = Undefined
    /\ hist = [died |-> {}, cellCount |-> Undefined, split |-> 0]

\* step 8 of update while Dna.TOTAL_POINTS is probe.T
SplitAfterSettings ==
    /\ pc = "split"
    /\ probe.op = "rehome"
    /\ \E w \in {splitDisconnectedFungi(World, probe.T)} : Commit(w)
    /\ pc' = "garden"
    /\ hist' = [hist EXCEPT !.split = nextId' - nextId]
    /\ UNCHANGED <<probe, env, frameVars, ticks, userVars>>

NextRehome == SplitAfterSettings

SpecRehome == InitRehome /\ [][NextRehome]_vars

\* the cells before the split paired with the cells of another organism that
\* are at their positions after it
Rehomed ==
    {pair \in (1..Len(probe.cells)) \X (1..Len(cells)) :
        /\ Cell_getPositionKey(probe.cells[pair[1]]) = Cell_getPositionKey(cells[pair[2]])
        /\ probe.cells[pair[1]].fungus # cells[pair[2]].fungus}

\* C31: every cell that a split rehomes is replaced by a cell at the same
\* position with the same total energy, mushroom flag and mushroom progress;
\* the split changes neither the number of occupied tiles nor the total
\* energy that the cells hold.
C31_RehomingKeepsEnergyAndMushroom ==
    pc = "garden" /\ probe.op = "rehome" =>
        /\ \A pair \in Rehomed :
              LET old == probe.cells[pair[1]]
                  new == cells[pair[2]]
              IN  /\ Cell_getEnergy(new) = Cell_getEnergy(old)
                  /\ new.hasMushroom = old.hasMushroom
                  /\ new.mushroomGrowth = old.mushroomGrowth
        /\ {Cell_getPositionKey(c) : c \in CellSet}
              = {Cell_getPositionKey(probe.cells[i]) : i \in 1..Len(probe.cells)}
        /\ {p \in DOMAIN tiles : ~tiles[p].isEmpty} = {Cell_getPositionKey(c) : c \in CellSet}
        /\ TotalEnergy(cells) = TotalEnergy(probe.cells)

\* C32: a cell recreated by a split holds the same amount of Sun, of Soil and
\* of Nutrition as the cell it replaces.
C32_RehomingKeepsEachKind ==
    pc = "garden" /\ probe.op = "rehome" =>
        \A pair \in Rehomed : \A t \in EnergyType :
            cells[pair[2]].energyWallet[t] = probe.cells[pair[1]].energyWallet[t]

\* C33: every organism that a split creates has the generation of the
\* original organism and a trait vector equal to the original's, trait by
\* trait, whatever Dna.TOTAL_POINTS is when the split happens.
C33_SplitKeepsGenerationAndTraits ==
    pc = "garden" /\ probe.op = "rehome" =>
        \A id \in fungi \ probe.fungi :
            /\ heap[id].generation = probe.generation
            /\ \A t \in Traits : heap[id].dna[t] = probe.dna[t]


----------------------------------------------------------------------------
(* The first loop of update by day and by night: cells of two organisms on  *)
(* a garden of 2 x 2 tiles, as the frames before leave them.  A cell holds  *)
(* the seed of createFungus, or a few units of Nutrition that the           *)
(* metabolism of this frame takes, with or without the Soil that it has     *)
(* absorbed in the sun and not yet converted.                               *)

\* [Soil, Nutrition]
CellWallets == { <<0, 5>>, <<0, 50>>, <<545, 0>>, <<545, 5>> }

InitCells ==
    /\ env = [name |-> "cells", gridSize |-> 2,
              mutations |-> {<<[from |-> green, to |-> red, amount |-> 1]>>},
              scatter |-> {<<0, 0>>, <<1, 0>>}]
    /\ \E positions \in SUBSET Grid(2) \ {{}}, dt \in {2, 5}, sun \in {0, 20} :
       \E owner \in [1..Cardinality(positions) -> {0, 1}],
          held \in [1..Cardinality(positions) -> CellWallets],
          armed \in [1..Cardinality(positions) -> BOOLEAN] :
          LET w0 == newFungus(newFungus(emptyEngineOn(2), Dna_new(DefaultDna, TOTAL_POINTS), 0),
                              Dna_new(ThriftyDna, TOTAL_POINTS), 0)
              w == sow(w0, positions, owner, held, armed)
              owners == {owner[k] : k \in 1..Cardinality(positions)}
          IN  /\ Cardinality(positions) <= 2
              /\ cells = w.cells
              /\ heap = [id \in owners |-> w.heap[id]]
              /\ fungi = owners
              /\ tiles = w.tiles
              /\ spores = <<>>
              /\ nextId = w.nextId
              /\ nextCell = w.nextCell
              /\ frameTime = dt
              /\ frameSun = sun
              /\ probe = [op |-> "cells", cells |-> w.cells]
    /\ pc = "cells"
    /\ idx = 1
    /\ todo = {}
    /\ ticks = 0
    /\ spawns = 0
    /\ created = Undefined
    /\ hist = [died |-> {}, cellCount |-> Undefined, split |-> 0]

NextCells == UpdateCell

SpecCells == InitCells /\ [][NextCells]_vars

\* the cell whose turn it is, after its metabolism step
AfterMetabolism == applyMetabolism(cells[idx], heap[cells[idx].fungus], frameTime)

\* C37: a cell whose liveness flag is false holds no energy, and a cell that
\* dies in its own metabolism step takes no further part in the tick: it
\* absorbs no Sun and no Soil, drains no neighbour, converts nothing and
\* releases no spores.
C37_DeadCellsTakeNoPart ==
    /\ [](\A i \in 1..Len(cells) : ~cells[i].alive => Cell_getEnergy(cells[i]) = 0)
    /\ [][pc = "cells" /\ cells[idx].alive /\ ~AfterMetabolism.alive =>
             /\ cells' = [cells EXCEPT ![idx] = AfterMetabolism]
             /\ tiles' = tiles
             /\ spores' = spores]_vars

====
